---------------------------- MODULE Spec2Model ----------------------------
(***************************************************************************)
(* Decision trace construction and temporal reasoning engine.              *)
(*                                                                         *)
(*   policy_store.py     POLICY_VERSIONS, PolicyStore.get_policy_at_time   *)
(*   decision_engine.py  DecisionEngine.construct_decision_trace,          *)
(*                       _parse_timestamp, _build_evidence,                *)
(*                       _detect_policy_exceptions                         *)
(*   graph_operations.py save_decision_trace and its helpers,              *)
(*                       find_precedents                                   *)
(*   neo4j_service.py    Neo4jService._create_schema, is_connected         *)
(*                                                                         *)
(* Instants are integers counting ticks of 1/TicksPerSecond seconds since  *)
(* 2025-01-01T00:00:00.  A Python datetime is a record [t, aware]: aware   *)
(* is TRUE when the value carries a UTC offset.  Comparing an aware with   *)
(* a naive datetime raises TypeError in Python.                            *)
(***************************************************************************)
EXTENDS Integers, Sequences, FiniteSets, TLC

VARIABLES
    decisions,   \* DecisionEngine._decisions : decision_id -> trace
    last,        \* outcome of the latest construct_decision_trace call
    nodes,       \* committed graph nodes
    rels,        \* committed graph relationships
    tx,          \* per process: the open transaction of save_decision_trace
    calls,       \* history of save_decision_trace calls and their results
    connected,   \* Neo4jService._connected
    found,       \* outcome of the latest find_precedents call
    read,        \* outcome of the latest get_decision_by_id call
    processed,   \* GmailMonitor.processed_message_ids
    tasks,       \* per process: the ingestion coroutine it runs
    responses    \* what the ingestion entry points have returned, in order

engineVars == <<decisions, last>>
graphVars  == <<nodes, rels, tx, calls, connected, found>>
apiVars    == <<read, processed, tasks, responses>>
vars       == <<decisions, last, nodes, rels, tx, calls, connected, found,
                apiVars>>

-----------------------------------------------------------------------------
(* Bounds                                                                  *)

TicksPerSecond == 2     \* sub-second resolution of the modelled clock
MaxDecisions   == 1     \* construct_decision_trace calls per behaviour
MaxCalls       == 2     \* save_decision_trace calls per behaviour
MaxIngests     == 2     \* entry-point calls per behaviour
MaxTraces      == 2     \* traces constructed by the entry points per behaviour

-----------------------------------------------------------------------------
(* Python values                                                           *)

NoTime == -1            \* None where a datetime is expected
None   == "None"        \* None where a string is expected

Naive(t) == [t |-> t, aware |-> FALSE]
Aware(t) == [t |-> t, aware |-> TRUE]
NoDateTime == [t |-> NoTime, aware |-> FALSE]

\* datetime(2025, month, day, h, m, s) for a day-of-year index counted from 0
DateTime(dayOfYear, secondOfDay) ==
    (dayOfYear * 86400 + secondOfDay) * TicksPerSecond

-----------------------------------------------------------------------------
(* policy_store.py                                                         *)

\* datetime(2025, 6, 1, 0, 0, 0): 151 days after 1 January 2025
V31From  == DateTime(151, 0)
\* datetime(2025, 12, 31, 23, 59, 59)
V31Until == DateTime(364, 86399)
\* datetime(2026, 1, 1, 0, 0, 0)
V32From  == DateTime(365, 0)

POLICY_VERSIONS == <<
    [version |-> "3.1", effective_from |-> V31From, effective_until |-> V31Until,
     rules |-> [standard_limit |-> 10, manager_limit |-> 15,
                vp_limit |-> 20, cfo_limit |-> 30]],
    [version |-> "3.2", effective_from |-> V32From, effective_until |-> NoTime,
     rules |-> [standard_limit |-> 10, manager_limit |-> 15,
                vp_limit |-> 25, cfo_limit |-> 35]] >>

\* PolicyStore.__init__: self._policies = POLICY_VERSIONS; the list is
\* taken as it is and the constructor always returns
PolicyStoreInit(versions) == [loaded |-> TRUE, policies |-> versions]

\* policy_store = PolicyStore()
policy_store == PolicyStoreInit(POLICY_VERSIONS)

\* policy_data values: an index into POLICY_VERSIONS, 0 for None,
\* RaisedTypeError when a comparison of datetimes raised
NoPolicy        == 0
RaisedTypeError == -1

\* "timestamp < effective_until" in place of "<="
InEffectBeforeUntil(policy, t) ==
    /\ t >= policy.effective_from
    /\ (policy.effective_until = NoTime \/ t < policy.effective_until)

\* timestamp >= effective_from and
\* (effective_until is None or timestamp <= effective_until)
InEffect(policy, t) ==
    /\ t >= policy.effective_from
    /\ (policy.effective_until = NoTime \/ t <= policy.effective_until)

\* The loop of get_policy_at_time over self._policies from position i on.
RECURSIVE ScanPolicies(_, _)
ScanPolicies(i, t) ==
    IF i > Len(POLICY_VERSIONS) THEN NoPolicy
    ELSE IF InEffect(POLICY_VERSIONS[i], t) THEN i
    ELSE ScanPolicies(i + 1, t)

\* PolicyStore.get_policy_at_time.  effective_from is a naive datetime, so
\* the first comparison raises TypeError for an offset-aware timestamp.
get_policy_at_time(timestamp) ==
    IF timestamp.aware /\ Len(POLICY_VERSIONS) > 0 THEN RaisedTypeError
    ELSE ScanPolicies(1, timestamp.t)

-----------------------------------------------------------------------------
(* Strings holding a discount, and float()                                 *)
(*                                                                         *)
(* A string is a sequence of characters over the digits, "%", " ", a       *)
(* letter "x", and the words "nan" and "inf" (each standing for its        *)
(* letters).  An Optional[str] is a record [present, chars].               *)

Digits == <<"0", "1", "2", "3", "4", "5", "6", "7", "8", "9">>
IsDigit(c) == \E i \in 1..10 : Digits[i] = c
DigitValue(c) == (CHOOSE i \in 1..10 : Digits[i] = c) - 1

NoneStr == [present |-> FALSE, chars |-> <<>>]
Str(chars) == [present |-> TRUE, chars |-> chars]

\* str.replace("%", "")
RECURSIVE RemovePercent(_)
RemovePercent(chars) ==
    IF chars = <<>> THEN <<>>
    ELSE IF Head(chars) = "%" THEN RemovePercent(Tail(chars))
    ELSE <<Head(chars)>> \o RemovePercent(Tail(chars))

\* str.strip()
RECURSIVE StripLeft(_)
StripLeft(chars) ==
    IF chars # <<>> /\ Head(chars) = " " THEN StripLeft(Tail(chars)) ELSE chars
RECURSIVE StripRight(_)
StripRight(chars) ==
    IF chars # <<>> /\ chars[Len(chars)] = " "
    THEN StripRight(SubSeq(chars, 1, Len(chars) - 1)) ELSE chars
Strip(chars) == StripRight(StripLeft(chars))

\* Python float values: a number, NaN or +infinity
Num(n)  == [kind |-> "num", n |-> n]
NaN     == [kind |-> "nan", n |-> 0]
PosInf  == [kind |-> "inf", n |-> 0]
BadFloat == [kind |-> "ValueError", n |-> 0]

RECURSIVE DecimalValue(_)
DecimalValue(chars) ==
    IF chars = <<>> THEN 0
    ELSE 10 * DecimalValue(SubSeq(chars, 1, Len(chars) - 1))
         + DigitValue(chars[Len(chars)])

\* float(s): a run of digits, "nan" or "inf"; anything else raises ValueError
Float(chars) ==
    IF chars # <<>> /\ \A i \in 1..Len(chars) : IsDigit(chars[i])
    THEN Num(DecimalValue(chars))
    ELSE IF chars = <<"nan">> THEN NaN
    ELSE IF chars = <<"inf">> THEN PosInf
    ELSE BadFloat

\* float comparisons with an int limit: every comparison with NaN is False
Gt(v, limit) == (v.kind = "num" /\ v.n > limit) \/ v.kind = "inf"
Le(v, limit) == v.kind = "num" /\ v.n <= limit
\* v - limit
Minus(v, limit) == IF v.kind = "num" THEN Num(v.n - limit) ELSE v

-----------------------------------------------------------------------------
(* decision_engine.py : _detect_policy_exceptions                          *)

\* float(final_discount.replace("%", "").strip())
ParseDiscount(final_discount) == Float(Strip(RemovePercent(final_discount.chars)))

PolicyException(type, limit, value, approved_by) ==
    [exception_type |-> type, policy_limit |-> limit, actual_value |-> value,
     deviation |-> Minus(value, limit), approved_by |-> approved_by]

Ge(v, limit) == (v.kind = "num" /\ v.n >= limit) \/ v.kind = "inf"
Lt(v, limit) == v.kind = "num" /\ v.n < limit

\* "discount_value >= standard_limit" in place of ">"
ClassifyDiscountFromStandard(discount_value, limits) ==
    IF Ge(discount_value, limits.standard_limit)
    THEN <<PolicyException("exceeds_standard_limit", limits.standard_limit,
                           discount_value, "Manager (within manager limit)")>>
    ELSE <<>>

\* "discount_value < manager_limit" and "< vp_limit" in place of "<="
ClassifyDiscountOpenBuckets(discount_value, limits) ==
    IF Gt(discount_value, limits.standard_limit)
    THEN IF Lt(discount_value, limits.manager_limit)
         THEN <<PolicyException("exceeds_standard_limit", limits.standard_limit,
                                discount_value, "Manager (within manager limit)")>>
         ELSE IF Lt(discount_value, limits.vp_limit)
         THEN <<PolicyException("requires_vp_approval", limits.manager_limit,
                                discount_value, "VP (within VP limit)")>>
         ELSE <<PolicyException("exceeds_all_standard_limits", limits.vp_limit,
                                discount_value, "Executive exception required")>>
    ELSE <<>>

\* The tier chosen by the nested if/elif/else once the value is parsed.
ClassifyDiscount(discount_value, limits) ==
    IF Gt(discount_value, limits.standard_limit)
    THEN IF Le(discount_value, limits.manager_limit)
         THEN <<PolicyException("exceeds_standard_limit", limits.standard_limit,
                                discount_value, "Manager (within manager limit)")>>
         ELSE IF Le(discount_value, limits.vp_limit)
         THEN <<PolicyException("requires_vp_approval", limits.manager_limit,
                                discount_value, "VP (within VP limit)")>>
         ELSE <<PolicyException("exceeds_all_standard_limits", limits.vp_limit,
                                discount_value, "Executive exception required")>>
    ELSE <<>>

\* DecisionEngine._detect_policy_exceptions; policy_data is an index into
\* POLICY_VERSIONS or NoPolicy.
detect_policy_exceptions(final_discount, policy_data) ==
    IF ~final_discount.present \/ final_discount.chars = <<>>
       \/ policy_data = NoPolicy
    THEN <<>>
    ELSE IF ParseDiscount(final_discount) = BadFloat THEN <<>>
    ELSE ClassifyDiscount(ParseDiscount(final_discount),
                          POLICY_VERSIONS[policy_data].rules)

\* logger.warning(f"Could not parse discount: {final_discount}"): written
\* to the log, no part of what _detect_policy_exceptions returns
parse_warning_logged(final_discount, policy_data) ==
    /\ final_discount.present /\ final_discount.chars # <<>>
    /\ policy_data # NoPolicy
    /\ ParseDiscount(final_discount) = BadFloat

-----------------------------------------------------------------------------
(* policy_store.py : get_required_approval_level                           *)

\* the if/elif chain with "<" in place of "<="
RequiredRoleOpenTiers(discount_percent, limits) ==
    IF Lt(discount_percent, limits.standard_limit) THEN "standard"
    ELSE IF Lt(discount_percent, limits.manager_limit) THEN "manager"
    ELSE IF Lt(discount_percent, limits.vp_limit) THEN "vp"
    ELSE IF Lt(discount_percent, limits.cfo_limit) THEN "cfo"
    ELSE "exception"

\* the if/elif chain over the limits of the resolved policy: the
\* required_role of the returned dict
RequiredRole(discount_percent, limits) ==
    IF Le(discount_percent, limits.standard_limit) THEN "standard"
    ELSE IF Le(discount_percent, limits.manager_limit) THEN "manager"
    ELSE IF Le(discount_percent, limits.vp_limit) THEN "vp"
    ELSE IF Le(discount_percent, limits.cfo_limit) THEN "cfo"
    ELSE "exception"

\* PolicyStore.get_required_approval_level: the required_role, or
\* "TypeError" when get_policy_at_time raised
get_required_approval_level(discount_percent, timestamp) ==
    IF get_policy_at_time(timestamp) = RaisedTypeError THEN "TypeError"
    ELSE IF get_policy_at_time(timestamp) = NoPolicy THEN "unknown"
    ELSE RequiredRole(discount_percent,
                      POLICY_VERSIONS[get_policy_at_time(timestamp)].rules)

-----------------------------------------------------------------------------
(* Graph store (Neo4j) as seen by graph_operations.py                      *)
(*                                                                         *)
(* A node is [label, key, by, props]: key is the tuple of the identity     *)
(* properties, by is the save_decision_trace call that created it.  A      *)
(* relationship is [type, from, to, props, by, stmt], from and to being    *)
(* node identities.  Writes of an open transaction are held in tx[p] and   *)
(* reach nodes and rels at commit; reads see the committed graph and the   *)
(* transaction's own writes.                                               *)

Procs == {"p1", "p2"}

\* Evidence.value : Union[str, int, float, bool, None]
NullValue    == [ty |-> "null", n |-> 0, s |-> ""]
IntValue(n)  == [ty |-> "int",  n |-> n, s |-> ""]
StrValue(s)  == [ty |-> "str",  n |-> 0, s |-> s]
BoolValue(b) == [ty |-> "bool", n |-> IF b THEN 1 ELSE 0, s |-> ""]

\* the constraint list with the person_email entry left out
ConstraintsWithoutPerson == {"Decision", "Policy", "Evidence", "Customer"}
\* the constraint list with the customer_name entry left out
ConstraintsWithoutCustomer == {"Decision", "Person", "Policy", "Evidence"}

\* neo4j_service.py, _create_schema: the labels with a uniqueness
\* constraint on their identity property
Constraints == {"Decision", "Person", "Policy", "Evidence", "Customer"}

\* by: the call that created the node, which stands for the properties
\* set from datetime() on creation (created_at, first_seen)
NodeId(n) == [label |-> n.label, key |-> n.key, by |-> n.by]

IdleTx == [call |-> 0, pc |-> 0, wnodes |-> {}, wrels |-> {},
           updates |-> {}, locks |-> {}]

\* properties of node n after the pending SETs of a transaction
Updated(n, updates) ==
    IF \E u \in updates : u.id = NodeId(n)
    THEN [n EXCEPT !.props = (CHOOSE u \in updates : u.id = NodeId(n)).props]
    ELSE n

\* what the statements of transaction t read
ViewNodes(t) == {Updated(n, t.updates) : n \in nodes \cup t.wnodes}

\* MATCH (x:label {identity: key})
Match(view, label, key) == {n \in view : n.label = label /\ n.key = key}

\* value of the last evidence item with the given field, None when absent
\* (the for loops of _create_decision_node and _create_customer_node)
RECURSIVE EvidenceValue(_, _)
EvidenceValue(evidence, field) ==
    IF evidence = <<>> THEN NullValue
    ELSE IF evidence[Len(evidence)].field = field
         THEN evidence[Len(evidence)].value
         ELSE EvidenceValue(SubSeq(evidence, 1, Len(evidence) - 1), field)

\* substrings of the e-mail addresses that _infer_role_from_email looks for
EmailMarkers(email) ==
    CASE email = "rep@corp.com"         -> {}
      [] email = "vp.sales@corp.com"    -> {"vp"}
      [] email = "cfo.manager@corp.com" -> {"manager", "cfo"}
      [] OTHER                          -> {}

infer_role_from_email(email) ==
    IF "manager" \in EmailMarkers(email) THEN "Manager"
    ELSE IF "vp" \in EmailMarkers(email) \/ "director" \in EmailMarkers(email)
    THEN "VP"
    ELSE IF "cfo" \in EmailMarkers(email) \/ "ceo" \in EmailMarkers(email)
    THEN "CFO"
    ELSE "Manager"

\* x or "" for an Optional[str]
OrEmpty(x) == IF x = None THEN "" ELSE x

-----------------------------------------------------------------------------
(* The tx.run statements of one save_decision_trace call, in program order *)

Stmt(op, i) == [op |-> op, i |-> i]

create_person_nodes_plan(trace) ==
    (IF trace.request.requestor_email # None
     THEN <<Stmt("MergeRequestor", 0)>> ELSE <<>>)
    \o (IF trace.decision.decision_maker_email # None
        THEN <<Stmt("MergeApprover", 0)>> ELSE <<>>)

create_relationships_plan(trace) ==
    (IF trace.request.requestor_email # None
     THEN <<Stmt("RelRequestedBy", 0)>> ELSE <<>>)
    \o (IF trace.decision.decision_maker_email # None
        THEN <<Stmt("RelApprovedBy", 0)>> ELSE <<>>)
    \o [i \in 1..Len(trace.evidence) |-> Stmt("RelBasedOn", i)]
    \o (IF trace.policy.present THEN <<Stmt("RelEvaluated", 0)>> ELSE <<>>)
    \o (IF trace.policy.present
        THEN [i \in 1..Len(trace.exceptions) |-> Stmt("RelOverrode", i)]
        ELSE <<>>)
    \o <<Stmt("RelForCustomer", 0)>>

Plan(trace) ==
    <<Stmt("CreateDecision", 0)>>
    \o create_person_nodes_plan(trace)
    \o [i \in 1..Len(trace.evidence) |-> Stmt("CreateEvidence", i)]
    \o (IF trace.policy.present THEN <<Stmt("MergePolicy", 0)>> ELSE <<>>)
    \o <<Stmt("MergeCustomer", 0)>>
    \o create_relationships_plan(trace)
    \o [i \in 1..Len(trace.precedents) |-> Stmt("RelSimilarTo", i)]

-----------------------------------------------------------------------------
(* Effect of one statement                                                 *)

\* datetime($x) applied to x.isoformat(): a string without offset is read
\* as UTC, so the stored value always carries a zone
CypherDateTime(dt) == [t |-> dt.t, aware |-> TRUE]

\* a or b for Optional[datetime]
OrTime(a, b) == IF a.t = NoTime THEN b ELSE a

StmtLabel(op) ==
    CASE op = "CreateDecision" -> "Decision"
      [] op \in {"MergeRequestor", "MergeApprover"} -> "Person"
      [] op = "CreateEvidence" -> "Evidence"
      [] op = "MergePolicy" -> "Policy"
      [] op = "MergeCustomer" -> "Customer"
      [] OTHER -> "none"

StmtKey(trace, stmt) ==
    CASE stmt.op = "CreateDecision" -> <<trace.decision_id>>
      [] stmt.op = "MergeRequestor" -> <<trace.request.requestor_email>>
      [] stmt.op = "MergeApprover"  -> <<trace.decision.decision_maker_email>>
      [] stmt.op = "CreateEvidence" ->
            <<trace.decision_id, trace.evidence[stmt.i].field>>
      [] stmt.op = "MergePolicy"    -> <<trace.policy.version>>
      [] stmt.op = "MergeCustomer"  -> <<trace.request.customer>>
      [] OTHER -> <<>>

\* _create_decision_node: the properties of the CREATE
DecisionProps(trace) ==
    [timestamp |-> CypherDateTime(trace.timestamp),
     type |-> trace.decision_type,
     outcome |-> trace.decision.outcome,
     customer_name |-> trace.request.customer,
     customer_industry |-> EvidenceValue(trace.evidence, "industry"),
     customer_arr |-> EvidenceValue(trace.evidence, "arr"),
     requestor_email |-> trace.request.requestor_email,
     requested_at |->
        CypherDateTime(OrTime(trace.request.requested_at, trace.timestamp)),
     final_action |-> trace.decision.final_action,
     decision_maker_email |-> trace.decision.decision_maker_email,
     decided_at |->
        CypherDateTime(OrTime(trace.decision.decided_at, trace.timestamp))]

\* _create_evidence_nodes: a bool value is stored as str(value)
EvidenceProps(trace, e) ==
    [source |-> e.source, field |-> e.field,
     value |-> IF e.value.ty = "bool"
               THEN StrValue(IF e.value.n = 1 THEN "True" ELSE "False")
               ELSE e.value,
     captured_at |-> CypherDateTime(e.captured_at),
     decision_id |-> trace.decision_id]

\* _create_policy_node: ON CREATE SET
PolicyProps(trace) ==
    [effective_from |-> CypherDateTime(Naive(trace.policy.effective_from)),
     effective_until |->
        IF trace.policy.effective_until # NoTime
        THEN CypherDateTime(Naive(trace.policy.effective_until))
        ELSE NoDateTime,
     standard_limit |-> trace.policy.rules.standard_limit,
     manager_limit |-> trace.policy.rules.manager_limit,
     vp_limit |-> trace.policy.rules.vp_limit]

\* _create_customer_node: ON CREATE SET
CustomerProps(trace) ==
    [industry |-> EvidenceValue(trace.evidence, "industry"),
     current_arr |-> EvidenceValue(trace.evidence, "arr"),
     tier |-> EvidenceValue(trace.evidence, "tier"),
     last_decision |-> CypherDateTime(trace.timestamp)]

\* ON MATCH SET c.current_arr = $current_arr, without the COALESCE
CustomerOnMatchOverwrite(trace, props) ==
    [props EXCEPT
        !.current_arr = EvidenceValue(trace.evidence, "arr"),
        !.last_decision = CypherDateTime(trace.timestamp)]

\* _create_customer_node: ON MATCH SET
CustomerOnMatch(trace, props) ==
    [props EXCEPT
        !.current_arr = IF EvidenceValue(trace.evidence, "arr") # NullValue
                        THEN EvidenceValue(trace.evidence, "arr") ELSE @,
        !.last_decision = CypherDateTime(trace.timestamp)]

\* _create_person_nodes: ON CREATE SET
PersonProps(trace, op) ==
    IF op = "MergeRequestor"
    THEN [role |-> "Sales Rep", name |-> OrEmpty(trace.request.requestor_name)]
    ELSE [role |-> infer_role_from_email(trace.decision.decision_maker_email),
          name |-> OrEmpty(trace.decision.decision_maker_name)]

NewNodeProps(trace, stmt) ==
    CASE stmt.op = "CreateDecision" -> DecisionProps(trace)
      [] stmt.op = "CreateEvidence" -> EvidenceProps(trace, trace.evidence[stmt.i])
      [] stmt.op = "MergePolicy"    -> PolicyProps(trace)
      [] stmt.op = "MergeCustomer"  -> CustomerProps(trace)
      [] OTHER                      -> PersonProps(trace, stmt.op)

NoRelProps == [followed |-> FALSE, exception_type |-> "", deviation |-> Num(0),
               similarity_score |-> 0, approved_at |-> NoDateTime]

\* the two MATCH patterns and the properties of a relationship statement
\* an EVALUATED relationship that always says the policy was followed
followed_always(trace) == TRUE

\* followed = not trace.policy.exception_made
followed(trace) == ~trace.policy.exception_made

RelSpec(trace, stmt) ==
    LET d == <<trace.decision_id>> IN
    CASE stmt.op = "RelRequestedBy" ->
            [type |-> "REQUESTED_BY", fl |-> "Decision", fk |-> d,
             tl |-> "Person", tk |-> <<trace.request.requestor_email>>,
             props |-> NoRelProps]
      [] stmt.op = "RelApprovedBy" ->
            [type |-> "APPROVED_BY", fl |-> "Decision", fk |-> d,
             tl |-> "Person", tk |-> <<trace.decision.decision_maker_email>>,
             props |-> [NoRelProps EXCEPT !.approved_at =
                 CypherDateTime(OrTime(trace.decision.decided_at, trace.timestamp))]]
      [] stmt.op = "RelBasedOn" ->
            [type |-> "BASED_ON", fl |-> "Decision", fk |-> d,
             tl |-> "Evidence",
             tk |-> <<trace.decision_id, trace.evidence[stmt.i].field>>,
             props |-> NoRelProps]
      [] stmt.op = "RelEvaluated" ->
            [type |-> "EVALUATED", fl |-> "Decision", fk |-> d,
             tl |-> "Policy", tk |-> <<trace.policy.version>>,
             props |-> [NoRelProps EXCEPT !.followed = followed(trace)]]
      [] stmt.op = "RelOverrode" ->
            [type |-> "OVERRODE", fl |-> "Decision", fk |-> d,
             tl |-> "Policy", tk |-> <<trace.policy.version>>,
             props |-> [NoRelProps EXCEPT
                 !.exception_type = trace.exceptions[stmt.i].exception_type,
                 !.deviation = trace.exceptions[stmt.i].deviation]]
      [] stmt.op = "RelForCustomer" ->
            [type |-> "FOR_CUSTOMER", fl |-> "Decision", fk |-> d,
             tl |-> "Customer", tk |-> <<trace.request.customer>>,
             props |-> NoRelProps]
      [] OTHER ->
            [type |-> "SIMILAR_TO", fl |-> "Decision", fk |-> d,
             tl |-> "Decision", tk |-> <<trace.precedents[stmt.i].decision_id>>,
             props |-> [NoRelProps EXCEPT !.similarity_score =
                            trace.precedents[stmt.i].similarity_score]]

\* a MERGE of a Person or Policy that sets every property again on a match
PersonPolicyOnMatchSet(trace, stmt, props) == NewNodeProps(trace, stmt)

\* MERGE (p:Person ...) and MERGE (p:Policy ...) have no ON MATCH clause:
\* a matched node keeps its properties
PersonPolicyOnMatch(trace, stmt, props) == props

IsCreate(op) == op \in {"CreateDecision", "CreateEvidence"}
IsMerge(op)  == op \in {"MergeRequestor", "MergeApprover", "MergePolicy",
                        "MergeCustomer"}

\* the uniqueness-index entry a node write locks until its transaction ends
LockFor(trace, stmt) ==
    IF (IsCreate(stmt.op) \/ IsMerge(stmt.op)) /\ StmtLabel(stmt.op) \in Constraints
    THEN {<<StmtLabel(stmt.op), StmtKey(trace, stmt)>>}
    ELSE {}

\* a statement that wrote nothing
NoEffect == [ok |-> TRUE, wnodes |-> {}, wrels |-> {}, updates |-> {}]

\* MERGE ... ON MATCH SET in the place of CREATE: an existing node with the
\* key takes the new properties
CreateAsMerge(hits, fresh) ==
    IF hits # {}
    THEN [NoEffect EXCEPT !.updates =
             {[id |-> NodeId(n), props |-> fresh.props] : n \in hits}]
    ELSE [NoEffect EXCEPT !.wnodes = {fresh}]

\* CREATE (d:Decision {...}), CREATE (e:Evidence {...}): always a new node;
\* the store raises when the key exists under a uniqueness constraint
Create(hits, fresh) ==
    IF fresh.label \in Constraints /\ hits # {}
    THEN [NoEffect EXCEPT !.ok = FALSE]
    ELSE [NoEffect EXCEPT !.wnodes = {fresh}]

\* tx.run(statement) inside transaction t: ok = FALSE when the store raises
\* (a CREATE that violates a uniqueness constraint)
Exec(t, trace, stmt) ==
    LET view    == ViewNodes(t)
        label   == StmtLabel(stmt.op)
        key     == StmtKey(trace, stmt)
        hits    == Match(view, label, key)
        fresh   == [label |-> label, key |-> key, by |-> t.call,
                    props |-> NewNodeProps(trace, stmt)]
        nothing == NoEffect
    IN
    IF IsCreate(stmt.op)
    THEN Create(hits, fresh)
    ELSE IF IsMerge(stmt.op)
    THEN IF hits = {}
         THEN [nothing EXCEPT !.wnodes = {fresh}]
         ELSE IF stmt.op = "MergeCustomer"
         THEN [nothing EXCEPT !.updates =
                  {[id |-> NodeId(n), props |-> CustomerOnMatch(trace, n.props)]
                      : n \in hits}]
         ELSE [nothing EXCEPT !.updates =
                  {[id |-> NodeId(n),
                    props |-> PersonPolicyOnMatch(trace, stmt, n.props)]
                      : n \in {h \in hits :
                           PersonPolicyOnMatch(trace, stmt, h.props) # h.props}}]
    ELSE LET r == RelSpec(trace, stmt) IN
         [nothing EXCEPT !.wrels =
             {[type |-> r.type, from |-> NodeId(a), to |-> NodeId(b),
               props |-> r.props, by |-> t.call, stmt |-> t.pc]
                 : a \in Match(view, r.fl, r.fk), b \in Match(view, r.tl, r.tk)}]

\* the pending writes of t after the effect e of one more statement
AddWrites(t, e) ==
    [t EXCEPT
        !.wnodes  = {Updated(n, e.updates) : n \in t.wnodes} \cup e.wnodes,
        !.wrels   = t.wrels \cup e.wrels,
        !.updates = {u \in t.updates : ~\E v \in e.updates : v.id = u.id}
                    \cup {v \in e.updates : v.id.by # t.call}]

\* tx.commit(): the graph with the writes of t applied
Committed(t) ==
    [nodes |-> {Updated(n, t.updates) : n \in nodes} \cup t.wnodes,
     rels  |-> rels \cup t.wrels]

\* statements run on the session in auto-commit mode instead of on tx:
\* what ran before the exception stays in the graph
RolledBackPartially(t) == Committed(t)

\* leaving "with session.begin_transaction() as tx" on an exception: the
\* transaction is rolled back, none of its writes reaches the graph
RolledBack(t) == [nodes |-> nodes, rels |-> rels]

-----------------------------------------------------------------------------
(* models.py : the DecisionTrace aggregate                                 *)

NoRules == [standard_limit |-> 0, manager_limit |-> 0, vp_limit |-> 0,
            cfo_limit |-> 0]
NoPolicyInfo == [present |-> FALSE, version |-> "", effective_from |-> NoTime,
                 effective_until |-> NoTime, rules |-> NoRules,
                 exception_made |-> FALSE]
\* PolicyInfo(version=..., effective_from=..., effective_until=..., rules=...,
\*            exception_made=False)
PolicyInfo(policy_data) ==
    [present |-> TRUE,
     version |-> POLICY_VERSIONS[policy_data].version,
     effective_from |-> POLICY_VERSIONS[policy_data].effective_from,
     effective_until |-> POLICY_VERSIONS[policy_data].effective_until,
     rules |-> POLICY_VERSIONS[policy_data].rules,
     exception_made |-> FALSE]

Evidence(source, field, value, captured_at) ==
    [source |-> source, field |-> field, value |-> value,
     captured_at |-> captured_at]

Precedent(decision_id, customer, outcome, timestamp) ==
    [decision_id |-> decision_id, customer |-> customer, outcome |-> outcome,
     similarity_score |-> 85, timestamp |-> timestamp]

DecisionTrace(decision_id, timestamp, request, decision, evidence, policy, precedents, exceptions, source) ==
    [decision_id |-> decision_id, timestamp |-> timestamp,
     decision_type |-> "discount_approval", request |-> request,
     decision |-> decision, evidence |-> evidence, policy |-> policy,
     precedents |-> precedents, exceptions |-> exceptions, source |-> source]

NoTrace ==
    DecisionTrace("", NoDateTime,
        [customer |-> "", requested_action |-> NoneStr, requestor_email |-> None,
         requestor_name |-> None, requested_at |-> NoDateTime],
        [outcome |-> "", final_action |-> NoneStr, decision_maker_email |-> None,
         decision_maker_name |-> None, decided_at |-> NoDateTime],
        <<>>, NoPolicyInfo, <<>>, <<>>, "")

-----------------------------------------------------------------------------
(* graph_operations.py : find_precedents                                   *)

\* truth value of an Optional scalar in "if x:"
Truthy(v) ==
    CASE v.ty = "null" -> FALSE
      [] v.ty = "str"  -> v.s # ""
      [] OTHER         -> v.n # 0

\* int(customer_arr * 0.8) and int(customer_arr * 1.2) for a non-negative
\* integer ARR: the double product truncated towards zero
ArrMin(customer_arr) == (customer_arr * 4) \div 5
ArrMax(customer_arr) == (customer_arr * 6) \div 5

\* d.customer_arr > $arr_min AND d.customer_arr < $arr_max; a comparison
\* with a missing or non-numeric property is null and drops the row
ArrClause(d, customer_arr) ==
    /\ d.props.customer_arr.ty = "int"
    /\ d.props.customer_arr.n > ArrMin(customer_arr.n)
    /\ d.props.customer_arr.n < ArrMax(customer_arr.n)

\* the WHERE clause without its d.type = $type conjunct
WhereClauseAnyType(d, customer_industry, customer_arr, decision_type) ==
    /\ Truthy(customer_industry) => d.props.customer_industry = customer_industry
    /\ Truthy(customer_arr) => ArrClause(d, customer_arr)

\* the WHERE clause assembled from the filters that are given
WhereClause(d, customer_industry, customer_arr, decision_type) ==
    /\ d.props.type = decision_type
    /\ Truthy(customer_industry) => d.props.customer_industry = customer_industry
    /\ Truthy(customer_arr) => ArrClause(d, customer_arr)

Matches(customer_industry, customer_arr, decision_type) ==
    {d \in nodes : /\ d.label = "Decision"
                   /\ WhereClause(d, customer_industry, customer_arr,
                                  decision_type)}

Min(a, b) == IF a <= b THEN a ELSE b

\* ORDER BY d.timestamp DESC LIMIT $limit: every order of the rows the
\* store may return (rows with equal timestamps come in any order)
OrderedRows(rows, limit) ==
    {r \in [1..Min(limit, Cardinality(rows)) -> rows] :
        /\ \A i, j \in DOMAIN r : i < j => /\ r[i] # r[j]
                                           /\ r[i].props.timestamp.t
                                                >= r[j].props.timestamp.t
        /\ \A m \in rows : (\A i \in DOMAIN r : r[i] # m) =>
              \A i \in DOMAIN r : r[i].props.timestamp.t >= m.props.timestamp.t}

\* the lists find_precedents builds from the records of a query that ran
QueryResults(customer_industry, customer_arr, decision_type, limit) ==
    {[i \in DOMAIN r |->
         Precedent(r[i].key[1], r[i].props.customer_name,
                   r[i].props.final_action, r[i].props.timestamp)]
         : r \in OrderedRows(Matches(customer_industry, customer_arr,
                                     decision_type), limit)}

\* the query raises and no handler is around it: the error reaches the caller
QueryFailedUncaught == [raised |-> TRUE, how |-> "query_failed", result |-> <<>>]

\* the query raises: except Exception as e -> logger.error(...); return []
QueryFailed == [raised |-> FALSE, how |-> "query_failed", result |-> <<>>]

\* the ways a find_precedents call can end: how it went, whether it raised,
\* what it returned
find_precedents_ends(customer_industry, customer_arr, decision_type, limit) ==
    IF ~connected
    THEN {[raised |-> FALSE, how |-> "not_connected", result |-> <<>>]}
    ELSE {QueryFailed}
         \cup {[raised |-> FALSE, how |-> "ran", result |-> r] :
                 r \in QueryResults(customer_industry, customer_arr,
                                    decision_type, limit)}

\* the possible return values of find_precedents
find_precedents(customer_industry, customer_arr, decision_type, limit) ==
    {o.result : o \in {e \in find_precedents_ends(customer_industry,
                             customer_arr, decision_type, limit) : ~e.raised}}

-----------------------------------------------------------------------------
(* graph_operations.py : save_decision_trace                               *)

\* wrote: the transaction held relationship writes when the call returned
Call(p, trace, result) ==
    [proc |-> p, trace |-> trace, result |-> result, wrote |-> FALSE]

\* key locks held by the transactions of the other processes
LocksHeldByOthers(p) == UNION {tx[q].locks : q \in Procs \ {p}}

\* save_decision_trace when is_connected() is False: return False
SaveNotConnected(p, trace) ==
    /\ tx[p].call = 0
    /\ Len(calls) < MaxCalls
    /\ ~connected
    /\ calls' = Append(calls, Call(p, trace, "False"))
    /\ UNCHANGED <<apiVars, nodes, rels, tx, connected, found, decisions, last>>

\* save_decision_trace entering session.begin_transaction()
BeginTransaction(p, trace) ==
    /\ tx[p].call = 0
    /\ Len(calls) < MaxCalls
    /\ connected
    /\ calls' = Append(calls, Call(p, trace, "running"))
    /\ tx' = [tx EXCEPT ![p] = [IdleTx EXCEPT !.call = Len(calls) + 1, !.pc = 1]]
    /\ UNCHANGED <<apiVars, nodes, rels, connected, found, decisions, last>>

\* the next tx.run of the call succeeds
RunStatement(p) ==
    LET t     == tx[p]
        trace == calls[t.call].trace
        stmt  == Plan(trace)[t.pc]
        e     == Exec(t, trace, stmt)
    IN
    /\ t.call # 0
    /\ t.pc <= Len(Plan(trace))
    /\ LockFor(trace, stmt) \cap LocksHeldByOthers(p) = {}
    /\ e.ok
    /\ tx' = [tx EXCEPT ![p] =
                [AddWrites(t, e) EXCEPT !.pc = t.pc + 1,
                                        !.locks = t.locks \cup LockFor(trace, stmt)]]
    /\ UNCHANGED <<apiVars, nodes, rels, calls, connected, found, decisions, last>>

\* the next tx.run raises a constraint error: except Exception -> return False
ConstraintViolation(p) ==
    LET t     == tx[p]
        trace == calls[t.call].trace
        stmt  == Plan(trace)[t.pc]
    IN
    /\ t.call # 0
    /\ t.pc <= Len(Plan(trace))
    /\ LockFor(trace, stmt) \cap LocksHeldByOthers(p) = {}
    /\ ~Exec(t, trace, stmt).ok
    /\ nodes' = RolledBack(t).nodes
    /\ rels' = RolledBack(t).rels
    /\ calls' = [calls EXCEPT ![t.call].result = "False",
                               ![t.call].wrote = (t.wrels # {})]
    /\ tx' = [tx EXCEPT ![p] = IdleTx]
    /\ UNCHANGED <<apiVars, connected, found, decisions, last>>

\* any statement, or the commit, raises for a reason outside the program
\* (connection lost, deadlock detected, lock wait timed out): return False
StatementFails(p) ==
    LET t == tx[p] IN
    /\ t.call # 0
    /\ nodes' = RolledBack(t).nodes
    /\ rels' = RolledBack(t).rels
    /\ calls' = [calls EXCEPT ![t.call].result = "False",
                               ![t.call].wrote = (t.wrels # {})]
    /\ tx' = [tx EXCEPT ![p] = IdleTx]
    /\ UNCHANGED <<apiVars, connected, found, decisions, last>>

\* tx.commit() after the last statement: return True
Commit(p) ==
    LET t == tx[p] IN
    /\ t.call # 0
    /\ t.pc = Len(Plan(calls[t.call].trace)) + 1
    /\ nodes' = Committed(t).nodes
    /\ rels' = Committed(t).rels
    /\ calls' = [calls EXCEPT ![t.call].result = "True",
                               ![t.call].wrote = (t.wrels # {})]
    /\ tx' = [tx EXCEPT ![p] = IdleTx]
    /\ UNCHANGED <<apiVars, connected, found, decisions, last>>

\* a caller of find_precedents; ran: the query ran and its records were read
FindPrecedents(customer_industry, customer_arr, decision_type, limit) ==
    /\ \E r \in find_precedents(customer_industry, customer_arr,
                                decision_type, limit), ran \in BOOLEAN :
          /\ ran => /\ connected
                    /\ r \in QueryResults(customer_industry, customer_arr,
                                          decision_type, limit)
          /\ ~ran => r = <<>>
          /\ found' = [called |-> TRUE, customer_industry |-> customer_industry,
                       customer_arr |-> customer_arr,
                       decision_type |-> decision_type, limit |-> limit,
                       stored |-> {d \in nodes : d.label = "Decision"},
                       ran |-> ran, result |-> r]
    /\ UNCHANGED <<apiVars, nodes, rels, tx, calls, connected, decisions, last>>

\* stored: the Decision nodes in the graph when the query ran
NotCalled == [called |-> FALSE, customer_industry |-> NullValue,
              customer_arr |-> NullValue, decision_type |-> "", limit |-> 0,
              stored |-> {}, ran |-> FALSE, result |-> <<>>]

-----------------------------------------------------------------------------
(* graph_operations.py : get_decision_by_id                                *)

NotRead == [called |-> FALSE, decision_id |-> "", kind |-> "none",
            evidence |-> {}]

\* dict(e) for an Evidence node: a property written as null does not exist
\* on the node, and its key is missing from the dict
EvidenceDict(e) ==
    [source |-> e.props.source, field |-> e.props.field,
     value |-> e.props.value, captured_at |-> e.props.captured_at]

\* collect(DISTINCT evidence) over OPTIONAL MATCH (d)-[:BASED_ON]->(evidence)
evidence_list(d) ==
    {e \in nodes : /\ e.label = "Evidence"
                   /\ \E r \in rels : /\ r.type = "BASED_ON"
                                      /\ r.from = NodeId(d)
                                      /\ r.to = NodeId(e)}

\* the possible outcomes of get_decision_by_id: None when not connected or
\* when no Decision has the id, the dict of the decision otherwise; the
\* function has no except clause, so an error of the store is raised
get_decision_by_id(decision_id) ==
    IF ~connected
    THEN {[NotRead EXCEPT !.called = TRUE, !.decision_id = decision_id]}
    ELSE {[NotRead EXCEPT !.called = TRUE, !.decision_id = decision_id,
                          !.kind = "raise"]}
         \cup
         IF Match(nodes, "Decision", <<decision_id>>) = {}
         THEN {[NotRead EXCEPT !.called = TRUE, !.decision_id = decision_id]}
         ELSE {[called |-> TRUE, decision_id |-> decision_id, kind |-> "dict",
                evidence |-> {EvidenceDict(e) : e \in evidence_list(d)}]
                  : d \in Match(nodes, "Decision", <<decision_id>>)}

\* a caller of get_decision_by_id
GetDecisionById(decision_id) ==
    /\ \E r \in get_decision_by_id(decision_id) : read' = r
    /\ UNCHANGED <<decisions, last, nodes, rels, tx, calls, connected, found,
                   processed, tasks, responses>>

-----------------------------------------------------------------------------
(* Traces handed to save_decision_trace                                    *)

At(dayOfYear) == Naive(DateTime(dayOfYear, 0))

Request(customer, email, name, requested_at) ==
    [customer |-> customer, requested_action |-> Str(<<"1", "8", "%">>),
     requestor_email |-> email, requestor_name |-> name,
     requested_at |-> requested_at]

Outcome(outcome, final_action, email, name, decided_at) ==
    [outcome |-> outcome, final_action |-> final_action,
     decision_maker_email |-> email, decision_maker_name |-> name,
     decided_at |-> decided_at]

\* a trace with an exception against policy 3.1, rep -> vp
TraceA ==
    DecisionTrace("dec_a", At(200),
        Request("Acme", "rep@corp.com", "Rep", NoDateTime),
        Outcome("approved", Str(<<"1", "8", "%">>), "vp.sales@corp.com", "Vee",
                At(200)),
        <<Evidence("salesforce", "arr", IntValue(500000), At(200)),
          Evidence("salesforce", "industry", StrValue("healthcare"), At(200))>>,
        [PolicyInfo(1) EXCEPT !.exception_made = TRUE],
        <<>>,
        ClassifyDiscount(Num(18), POLICY_VERSIONS[1].rules),
        "manual")

\* same customer and policy version with other limits, the two persons in
\* the opposite roles, a precedent that may be stored
TraceB ==
    DecisionTrace("dec_b", At(210),
        Request("Acme", "vp.sales@corp.com", None, At(209)),
        Outcome("approved", Str(<<"8", "%">>), "rep@corp.com", "Other", At(210)),
        <<Evidence("salesforce", "arr", IntValue(360000), At(210))>>,
        [PolicyInfo(1) EXCEPT !.effective_until = DateTime(300, 0),
                              !.rules.standard_limit = 12],
        <<Precedent("dec_a", "Acme", Str(<<"1", "8", "%">>), At(200))>>,
        <<>>,
        "gmail")

\* the same customer with no policy and no evidence (ARR absent), one
\* person in both roles, a precedent that is not stored
TraceC ==
    DecisionTrace("dec_c", At(100),
        Request("Acme", "rep@corp.com", "Rep", NoDateTime),
        Outcome("pending", Str(<<"x">>), "rep@corp.com", "Rep", At(100)),
        <<>>, NoPolicyInfo,
        <<Precedent("dec_z", "Initech", Str(<<"5", "%">>), At(90))>>,
        <<>>,
        "manual")

\* the decision id of TraceA with other content, no requestor, ARR unknown
TraceD ==
    DecisionTrace("dec_a", At(366),
        Request("Acme", None, None, NoDateTime),
        Outcome("rejected", Str(<<"3", "0", "%">>), "cfo.manager@corp.com", None,
                At(366)),
        <<Evidence("salesforce", "arr", NullValue, At(366)),
          Evidence("salesforce", "tier", StrValue("enterprise"), At(366))>>,
        PolicyInfo(2), <<>>, <<>>, "gmail")

GraphTraces == {TraceA, TraceB, TraceC, TraceD}

-----------------------------------------------------------------------------
(* decision_engine.py : construct_decision_trace                           *)

FloatValue(tenths) == [ty |-> "float", n |-> tenths, s |-> ""]

\* An extracted timestamp string: absent, not parseable, or an ISO 8601
\* text of the datetime dt (with a UTC offset when dt.aware)
TsAbsent  == [kind |-> "none", dt |-> NoDateTime]
TsGarbled == [kind |-> "bad",  dt |-> NoDateTime]
TsIso(dt) == [kind |-> "iso",  dt |-> dt]

\* DecisionEngine._parse_timestamp: None for a missing string and when
\* parsing raises
parse_timestamp(timestamp_str) ==
    IF timestamp_str.kind = "iso" THEN timestamp_str.dt ELSE NoDateTime

\* a or b for Optional[str]
StrOr(a, b) == IF a.present /\ a.chars # <<>> THEN a ELSE b
Unknown == Str(<<"Unknown">>)

\* mock_apis.py, get_all_customer_data: the customers with CRM, support and
\* finance records
KnownCustomers == {"MedTech Corp"}

\* DecisionEngine._build_evidence for the result of get_all_customer_data
build_evidence(customer_name, retrieved_at) ==
    IF customer_name \in KnownCustomers
    THEN <<Evidence("salesforce", "arr", IntValue(450000), retrieved_at),
           Evidence("salesforce", "tier", StrValue("enterprise"), retrieved_at),
           Evidence("salesforce", "industry", StrValue("healthcare"), retrieved_at),
           Evidence("zendesk", "sev1_tickets", IntValue(3), retrieved_at),
           Evidence("zendesk", "satisfaction_score", FloatValue(32), retrieved_at),
           Evidence("stripe", "margin_percent", FloatValue(320), retrieved_at),
           Evidence("stripe", "ltv", IntValue(2400000), retrieved_at),
           Evidence("stripe", "payment_status", StrValue("current"), retrieved_at)>>
    ELSE <<>>

\* f"dec_{uuid.uuid4().hex[:12]}": the identifiers a behaviour may draw
DecisionIds == <<"dec_1", "dec_2", "dec_3", "dec_4", "dec_5">>
FreshIds == {DecisionIds[i] : i \in 1..MaxDecisions} \ DOMAIN decisions

NoCall ==
    [kind |-> "init", error |-> "", decision_timestamp |-> TsAbsent,
     request_timestamp |-> TsAbsent, now |-> NoDateTime,
     final_discount |-> NoneStr, policy_data |-> NoPolicy,
     lookup |-> "none", source |-> "", trace |-> NoTrace,
     applied |-> <<>>, required_role |-> "", exceptions |-> <<>>,
     customer_name |-> "", precedents |-> <<>>]

\* the named function has run in the call that last holds
Applied(name) == \E i \in DOMAIN last.applied : last.applied[i] = name

\* the email source of an EmailIngestionRequest and what Gmail returns
Sources == {"email_thread", "gmail_thread_id", "gmail_message_id", "none"}

\* Step 1 without model_post_init and without the final
\* "else: raise ValueError": a request with no source goes on with no text
email_source_unchecked(source, fetched) ==
    IF source \in {"gmail_thread_id", "gmail_message_id"} /\ ~fetched
    THEN "ValueError" ELSE "text"

\* EmailIngestionRequest.model_post_init and Step 1: the email text, or
\* ValueError when no source is given or the thread or message is not found
email_source(source, fetched) ==
    IF source = "none" THEN "ValueError"
    ELSE IF source \in {"gmail_thread_id", "gmail_message_id"} /\ ~fetched
    THEN "ValueError" ELSE "text"

\* Step 1 raises ValueError: the thread or message is not found, or no
\* source is given
ConstructRaisesValueError(source, fetched) ==
    /\ Cardinality(DOMAIN decisions) < MaxDecisions
    /\ email_source(source, fetched) = "ValueError"
    /\ last' = [NoCall EXCEPT !.kind = "raise", !.error = "ValueError",
                              !.source = source]
    /\ UNCHANGED <<apiVars, decisions, nodes, rels, tx, calls, connected, found>>

\* the update "policy_info.exception_made = True" left out
exception_made_never(exceptions) == FALSE

\* "if policy_info and exceptions: policy_info.exception_made = True" on a
\* PolicyInfo built with exception_made=False
exception_made_after(exceptions) == exceptions # <<>>

\* the timestamp of Step 3
decision_timestamp_of(extracted_ts, now) ==
    OrTime(parse_timestamp(extracted_ts), now)

\* Step 5 raises TypeError: nothing is stored, the exception propagates
ConstructRaisesTypeError(source, extracted_ts, extracted_request_ts, now, final_discount) ==
    /\ Cardinality(DOMAIN decisions) < MaxDecisions
    /\ email_source(source, TRUE) = "text"
    /\ get_policy_at_time(decision_timestamp_of(extracted_ts, now))
         = RaisedTypeError
    /\ last' = [NoCall EXCEPT !.kind = "raise", !.error = "TypeError",
                              !.source = source,
                              !.decision_timestamp = extracted_ts,
                              !.now = now,
                              !.policy_data = RaisedTypeError]
    /\ UNCHANGED <<apiVars, decisions, nodes, rels, tx, calls, connected, found>>

\* Steps 3 to 8: the DecisionTrace built from the extraction, the customer
\* data, the resolved policy and the precedents that were found
assemble_trace(source, customer_name, extracted_ts, extracted_request_ts, now, final_discount, decision_id, policy_data, exceptions, precedents) ==
    LET decision_timestamp == decision_timestamp_of(extracted_ts, now)
        request_timestamp  == parse_timestamp(extracted_request_ts)
        requested_discount == Str(<<"1", "8", "%">>)
        decision_request ==
            [customer |-> customer_name,
             requested_action |-> StrOr(requested_discount, Unknown),
             requestor_email |-> "rep@corp.com", requestor_name |-> "Rep",
             requested_at |-> request_timestamp]
        decision_outcome ==
            [outcome |-> "approved",
             final_action |->
                 StrOr(final_discount, StrOr(requested_discount, Unknown)),
             decision_maker_email |-> "vp.sales@corp.com",
             decision_maker_name |-> "Vee",
             decided_at |-> decision_timestamp]
        evidence == build_evidence(customer_name, now)
        policy_info ==
            IF policy_data = NoPolicy THEN NoPolicyInfo
            ELSE [PolicyInfo(policy_data) EXCEPT
                     !.exception_made = exception_made_after(exceptions)]
    IN
    DecisionTrace(decision_id, decision_timestamp, decision_request,
                  decision_outcome, evidence, policy_info, precedents, exceptions,
                  IF source = "email_thread" THEN "manual" ELSE "gmail")

\* Steps 3 to 8 of construct_decision_trace for the precedents Step 7.5 got
build_trace(source, customer_name, extracted_ts, extracted_request_ts, now, final_discount, decision_id, precedents) ==
    assemble_trace(source, customer_name, extracted_ts, extracted_request_ts,
                   now, final_discount, decision_id,
                   get_policy_at_time(decision_timestamp_of(extracted_ts, now)),
                   detect_policy_exceptions(
                       final_discount,
                       get_policy_at_time(decision_timestamp_of(extracted_ts, now))),
                   precedents)

\* the precedents Step 7.5 may get for the evidence of the customer
precedents_for(customer_name, now) ==
    find_precedents(EvidenceValue(build_evidence(customer_name, now), "industry"),
                    EvidenceValue(build_evidence(customer_name, now), "arr"),
                    "discount_approval", 5)

\* the ways Step 7.5 can end for the evidence of the customer
precedent_lookup(customer_name, now) ==
    find_precedents_ends(
        EvidenceValue(build_evidence(customer_name, now), "industry"),
        EvidenceValue(build_evidence(customer_name, now), "arr"),
        "discount_approval", 5)

\* the store holding nothing but the new trace
stored_after_reset(decision_id, decision_trace) == (decision_id :> decision_trace)

\* self._decisions[decision_trace.decision_id] = decision_trace
stored_after(decision_id, decision_trace) ==
    (decision_id :> decision_trace) @@ decisions

\* Steps 1 to 8 run to the end and the trace is stored and returned; an
\* exception out of find_precedents would leave before Step 8
ConstructDecisionTrace(source, customer_name, extracted_ts, extracted_request_ts, now, final_discount) ==
    /\ Cardinality(DOMAIN decisions) < MaxDecisions
    /\ email_source(source, TRUE) = "text"
    /\ get_policy_at_time(decision_timestamp_of(extracted_ts, now))
         # RaisedTypeError
    /\ \E decision_id \in FreshIds :
       \E o \in precedent_lookup(customer_name, now) :
          LET decision_trace ==
                 build_trace(source, customer_name, extracted_ts,
                             extracted_request_ts, now, final_discount,
                             decision_id, o.result)
              called ==
                 [kind |-> "trace", error |-> "",
                  decision_timestamp |-> extracted_ts,
                  request_timestamp |-> extracted_request_ts,
                  now |-> now, final_discount |-> final_discount,
                  policy_data |-> get_policy_at_time(
                      decision_timestamp_of(extracted_ts, now)),
                  lookup |-> o.how, source |-> source,
                  trace |-> decision_trace, applied |-> <<>>,
                  required_role |-> "", exceptions |-> <<>>,
                  customer_name |-> "", precedents |-> <<>>]
          IN
          IF o.raised
          THEN /\ last' = [called EXCEPT !.kind = "raise", !.error = "Exception",
                                         !.trace = NoTrace]
               /\ UNCHANGED decisions
          ELSE /\ decisions' = stored_after(decision_id, decision_trace)
               /\ last' = called
    /\ UNCHANGED <<apiVars, nodes, rels, tx, calls, connected, found>>

\* a direct caller of get_policy_at_time (seed_data.py)
GetPolicyAtTime(timestamp) ==
    /\ last' = [NoCall EXCEPT !.kind = "policy", !.now = timestamp,
                              !.policy_data = get_policy_at_time(timestamp)]
    /\ UNCHANGED <<apiVars, decisions, nodes, rels, tx, calls, connected, found>>

\* a caller of get_required_approval_level with the value and the instant
\* it holds
GetRequiredApprovalLevel ==
    /\ last.kind = "authority"
    /\ ~Applied("get_required_approval_level")
    /\ last' = [last EXCEPT
                  !.applied = Append(@, "get_required_approval_level"),
                  !.required_role =
                      get_required_approval_level(
                          ParseDiscount(last.final_discount), last.now)]
    /\ UNCHANGED <<apiVars, decisions, nodes, rels, tx, calls, connected, found>>

\* Steps 5 and 6 of construct_decision_trace for the same value and
\* instant: the policy in effect, then the exceptions against it
DetectPolicyExceptions ==
    /\ last.kind = "authority"
    /\ ~Applied("_detect_policy_exceptions")
    /\ last' = [last EXCEPT
                  !.applied = Append(@, "_detect_policy_exceptions"),
                  !.policy_data = get_policy_at_time(last.now),
                  !.error = IF get_policy_at_time(last.now) = RaisedTypeError
                            THEN "TypeError" ELSE "",
                  !.exceptions =
                      IF get_policy_at_time(last.now) = RaisedTypeError
                      THEN <<>>
                      ELSE detect_policy_exceptions(
                               last.final_discount,
                               get_policy_at_time(last.now))]
    /\ UNCHANGED <<apiVars, decisions, nodes, rels, tx, calls, connected, found>>

-----------------------------------------------------------------------------
(* main.py : ingest_decision, get_decision                                 *)
(* gmail_monitor.py : ingest_email, batch_ingest                           *)

Messages == {"m1", "m2"}

\* the coroutine of a process: where it is suspended and its local variables
IdleTask == [kind |-> "idle", pc |-> "idle", message_id |-> "",
             auto_save |-> FALSE, decision_id |-> "", saved |-> "unset",
             queue |-> <<>>, successful |-> 0, failed |-> 0,
             total |-> 0, results |-> 0]

\* a value returned to the caller of an entry point; flag is the
\* saved_to_neo4j key ("absent" when the value has none), saved the local
\* variable of that name when the value was built, caller who called
Response(entry, message_id, success, error, decision_id, trace, flag, saved) ==
    [entry |-> entry, message_id |-> message_id, success |-> success,
     error |-> error, decision_id |-> decision_id, trace |-> trace,
     flag |-> flag, saved |-> saved, caller |-> "endpoint",
     total |-> 0, successful |-> 0, failed |-> 0, results |-> 0]

\* the value r returned to the loop of batch_ingest
InBatch(r) == [r EXCEPT !.caller = "batch_ingest"]

Failure(entry, message_id, error) ==
    Response(entry, message_id, FALSE, error, "", NoTrace, "absent", "unset")

\* the dict batch_ingest returns: total is len(messages), results the
\* length of the results list
BatchSummary(total, successful, failed, results) ==
    [Response("batch_ingest", "", TRUE, "", "", NoTrace, "absent", "unset")
        EXCEPT !.total = total, !.successful = successful,
               !.failed = failed, !.results = results]

\* the entry-point calls made so far, returned or running
Active == {p \in Procs : tasks[p].kind # "idle"}
Returned == {i \in DOMAIN responses : responses[i].caller = "endpoint"}
MayStart(p) ==
    /\ tasks[p].kind = "idle"
    /\ Cardinality(Returned) + Cardinality(Active) < MaxIngests

\* what the extraction and the customer lookup give for an ingested email
IngestInputs ==
    {[customer_name |-> "Nobody Ltd", extracted_ts |-> TsAbsent,
      final_discount |-> Str(<<"8", "%">>)],
     [customer_name |-> "Nobody Ltd", extracted_ts |-> TsIso(Aware(DateTime(100, 0))),
      final_discount |-> Str(<<"8", "%">>)]}
IngestNow == Naive(DateTime(400, 0))
IngestRaises(input) ==
    get_policy_at_time(decision_timestamp_of(input.extracted_ts, IngestNow))
        = RaisedTypeError
\* decision_id = f"dec_{uuid.uuid4().hex[:12]}": an id not handed out before
IngestFreshIds ==
    {DecisionIds[Cardinality(DOMAIN decisions) + 1]} \ DOMAIN decisions

\* the statements of save_decision_trace run one after the other in one
\* transaction: the transaction after the last one, or the first failure
RECURSIVE RunPlan(_, _)
RunPlan(t, trace) ==
    IF t.pc > Len(Plan(trace)) THEN [ok |-> TRUE, t |-> t]
    ELSE LET e == Exec(t, trace, Plan(trace)[t.pc]) IN
         IF ~e.ok THEN [ok |-> FALSE, t |-> t]
         ELSE RunPlan([AddWrites(t, e) EXCEPT !.pc = t.pc + 1], trace)

\* "saved = await save_decision_trace(trace)" seen from the awaiting
\* coroutine: True with the trace committed, or False with the graph as it was
SaveOutcomes(trace) ==
    LET t == [IdleTx EXCEPT !.call = Len(calls) + 1, !.pc = 1]
        run == RunPlan(t, trace)
    IN
    {[result |-> "False", nodes |-> nodes, rels |-> rels, wrote |-> FALSE]}
    \cup IF connected /\ run.ok
         THEN {[result |-> "True", nodes |-> Committed(run.t).nodes,
                rels |-> Committed(run.t).rels, wrote |-> run.t.wrels # {}]}
         ELSE {}

\* batch_ingest after one ingest_email returned: the messages found
\* processed by now are skipped with a failure, the next one is fetched,
\* and the summary is returned when none is left
RECURSIVE BatchContinue(_, _, _)
BatchContinue(task, out, done) ==
    IF task.queue = <<>>
    THEN [task |-> IdleTask,
          out |-> Append(out, BatchSummary(task.total, task.successful,
                                           task.failed, task.results))]
    ELSE IF Head(task.queue) \in done
    THEN BatchContinue([task EXCEPT !.queue = Tail(task.queue),
                                    !.failed = task.failed + 1,
                                    !.results = task.results + 1],
                       Append(out, InBatch(Failure("ingest_email",
                                                   Head(task.queue),
                                                   "Message already processed"))),
                       done)
    ELSE [task |-> [task EXCEPT !.queue = Tail(task.queue),
                                !.message_id = Head(task.queue),
                                !.pc = "fetch", !.decision_id = "",
                                !.saved = "unset"],
          out |-> out]

\* ingest_email returns r to its caller: the endpoint, or the loop of
\* batch_ingest, which goes on without suspending
EmailReturns(p, r, done) ==
    IF tasks[p].kind = "batch"
    THEN LET next == BatchContinue(
                 [tasks[p] EXCEPT
                     !.successful = IF r.success THEN @ + 1 ELSE @,
                     !.failed = IF r.success THEN @ ELSE @ + 1,
                     !.results = @ + 1],
                 Append(responses, InBatch(r)), done)
         IN /\ tasks' = [tasks EXCEPT ![p] = next.task]
            /\ responses' = next.out
    ELSE /\ tasks' = [tasks EXCEPT ![p] = IdleTask]
         /\ responses' = Append(responses, r)

\* ingest_decision up to the return of construct_decision_trace
DecisionConstruct(p, input) ==
    /\ MayStart(p)
    /\ Cardinality(DOMAIN decisions) < MaxTraces
    /\ ~IngestRaises(input)
    /\ \E decision_id \in IngestFreshIds :
       \E precedents \in precedents_for(input.customer_name, IngestNow) :
          /\ decisions' = stored_after(decision_id,
                build_trace("email_thread", input.customer_name,
                            input.extracted_ts, TsAbsent, IngestNow,
                            input.final_discount, decision_id, precedents))
          /\ tasks' = [tasks EXCEPT ![p] =
                [IdleTask EXCEPT !.kind = "decision", !.pc = "save",
                                 !.auto_save = TRUE,
                                 !.decision_id = decision_id]]
    /\ UNCHANGED <<last, nodes, rels, tx, calls, connected, found, read,
                   processed, responses>>

\* ingest_decision when construct_decision_trace raises: HTTPException
DecisionConstructRaises(p, input) ==
    /\ MayStart(p)
    /\ IngestRaises(input)
    /\ responses' = Append(responses,
                           Failure("ingest_decision", "", "Processing failed"))
    /\ UNCHANGED <<decisions, last, nodes, rels, tx, calls, connected, found,
                   read, processed, tasks>>

\* ingest_decision resumed by "saved = await save_decision_trace(...)":
\* it logs the result and returns decision_trace
DecisionSaved(p) ==
    /\ tasks[p].kind = "decision"
    /\ tasks[p].pc = "save"
    /\ \E o \in SaveOutcomes(decisions[tasks[p].decision_id]) :
          /\ nodes' = o.nodes
          /\ rels' = o.rels
          /\ calls' = Append(calls,
                [Call(p, decisions[tasks[p].decision_id], o.result)
                    EXCEPT !.wrote = o.wrote])
          /\ responses' = Append(responses,
                Response("ingest_decision", "", TRUE, "", tasks[p].decision_id,
                         decisions[tasks[p].decision_id], "absent", o.result))
    /\ tasks' = [tasks EXCEPT ![p] = IdleTask]
    /\ UNCHANGED <<decisions, last, tx, connected, found, read, processed>>

\* ingest_email called by the endpoint: the processed check, then the
\* coroutine suspends in gmail_service.get_message
EmailStart(p, message_id, auto_save) ==
    /\ MayStart(p)
    /\ IF message_id \in processed
       THEN /\ responses' = Append(responses,
                   Failure("ingest_email", message_id,
                           "Message already processed"))
            /\ UNCHANGED tasks
       ELSE /\ tasks' = [tasks EXCEPT ![p] =
                   [IdleTask EXCEPT !.kind = "email", !.pc = "fetch",
                                    !.message_id = message_id,
                                    !.auto_save = auto_save]]
            /\ UNCHANGED responses
    /\ UNCHANGED <<decisions, last, nodes, rels, tx, calls, connected, found,
                   read, processed>>

\* batch_ingest called: the coroutine suspends in the Gmail search
BatchStart(p) ==
    /\ MayStart(p)
    /\ tasks' = [tasks EXCEPT ![p] =
          [IdleTask EXCEPT !.kind = "batch", !.pc = "search",
                           !.auto_save = TRUE]]
    /\ UNCHANGED <<decisions, last, nodes, rels, tx, calls, connected, found,
                   read, processed, responses>>

\* the search returned: the messages not processed by now are kept, and
\* the loop calls ingest_email for the first of them
BatchSearched(p, messages) ==
    /\ tasks[p].pc = "search"
    /\ LET unprocessed == SelectSeq(messages, LAMBDA m : m \notin processed) IN
       IF unprocessed = <<>>
       THEN /\ responses' = Append(responses, BatchSummary(0, 0, 0, 0))
            /\ tasks' = [tasks EXCEPT ![p] = IdleTask]
       ELSE /\ tasks' = [tasks EXCEPT ![p] =
                   [tasks[p] EXCEPT !.queue = Tail(unprocessed),
                                    !.total = Len(unprocessed),
                                    !.message_id = Head(unprocessed),
                                    !.pc = "fetch"]]
            /\ UNCHANGED responses
    /\ UNCHANGED <<decisions, last, nodes, rels, tx, calls, connected, found,
                   read, processed>>

\* a failure return that marks the message processed all the same
processed_on_failure_marked(done, message_id) == done \cup {message_id}

\* the returns with success False ("not found" and "except Exception")
\* come before or jump over self.processed_message_ids.add(message_id)
processed_on_failure(done, message_id) == done

\* get_message returned None or raised
EmailNotFetched(p, error) ==
    /\ tasks[p].pc = "fetch"
    /\ processed' = processed_on_failure(processed, tasks[p].message_id)
    /\ EmailReturns(p, Failure("ingest_email", tasks[p].message_id, error),
                    processed_on_failure(processed, tasks[p].message_id))
    /\ UNCHANGED <<decisions, last, nodes, rels, tx, calls, connected, found,
                   read>>

\* "saved_to_neo4j": auto_save
saved_to_neo4j(auto_save, saved) == auto_save

\* the success value of ingest_email
EmailSuccess(task, decision_id, trace, saved) ==
    Response("ingest_email", task.message_id, TRUE, "", decision_id, trace,
             IF saved_to_neo4j(task.auto_save, saved) THEN "True" ELSE "False",
             saved)

\* get_message returned the message and construct_decision_trace, awaited
\* next, returned the trace (nothing shared is read or written between the
\* two awaits); with auto_save the coroutine suspends in the save, without
\* it the message is marked processed and the result returned
EmailConstruct(p, input) ==
    /\ tasks[p].pc = "fetch"
    /\ Cardinality(DOMAIN decisions) < MaxTraces
    /\ ~IngestRaises(input)
    /\ \E decision_id \in IngestFreshIds :
       \E precedents \in precedents_for(input.customer_name, IngestNow) :
          LET trace == build_trace("gmail_thread_id", input.customer_name,
                                   input.extracted_ts, TsAbsent, IngestNow,
                                   input.final_discount, decision_id, precedents)
          IN
          /\ decisions' = stored_after(decision_id, trace)
          /\ IF tasks[p].auto_save
             THEN /\ tasks' = [tasks EXCEPT ![p].decision_id = decision_id,
                                            ![p].pc = "save"]
                  /\ UNCHANGED <<processed, responses>>
             ELSE /\ processed' = processed \cup {tasks[p].message_id}
                  /\ EmailReturns(p,
                        EmailSuccess(tasks[p], decision_id, trace, "unset"),
                        processed \cup {tasks[p].message_id})
    /\ UNCHANGED <<last, nodes, rels, tx, calls, connected, found, read>>

\* ingest_email resumed by "saved = await save_decision_trace(trace)": a
\* failure is logged, the message is marked processed, the result returned
EmailSaved(p) ==
    /\ tasks[p].kind \in {"email", "batch"}
    /\ tasks[p].pc = "save"
    /\ \E o \in SaveOutcomes(decisions[tasks[p].decision_id]) :
          /\ nodes' = o.nodes
          /\ rels' = o.rels
          /\ calls' = Append(calls,
                [Call(p, decisions[tasks[p].decision_id], o.result)
                    EXCEPT !.wrote = o.wrote])
          /\ processed' = processed \cup {tasks[p].message_id}
          /\ EmailReturns(p,
                EmailSuccess(tasks[p], tasks[p].decision_id,
                             decisions[tasks[p].decision_id], o.result),
                processed \cup {tasks[p].message_id})
    /\ UNCHANGED <<decisions, last, tx, connected, found, read>>

\* construct_decision_trace raised: except Exception -> success False
EmailConstructRaises(p, input) ==
    /\ tasks[p].pc = "fetch"
    /\ IngestRaises(input)
    /\ processed' = processed_on_failure(processed, tasks[p].message_id)
    /\ EmailReturns(p, Failure("ingest_email", tasks[p].message_id, "TypeError"),
                    processed_on_failure(processed, tasks[p].message_id))
    /\ UNCHANGED <<decisions, last, nodes, rels, tx, calls, connected, found,
                   read>>

\* GET /decision/{decision_id}: decision_engine.get_decision
GetDecision(p, decision_id) ==
    /\ MayStart(p)
    /\ responses' = Append(responses,
          IF decision_id \in DOMAIN decisions
          THEN Response("get_decision", "", TRUE, "", decision_id,
                        decisions[decision_id], "absent", "unset")
          ELSE Failure("get_decision", "", "not found"))
    /\ UNCHANGED <<decisions, last, nodes, rels, tx, calls, connected, found,
                   read, processed, tasks>>

-----------------------------------------------------------------------------
(* Concurrent persistence                                                  *)

InitEngine ==
    /\ decisions = <<>>
    /\ last = NoCall

InitGraph ==
    /\ nodes = {}
    /\ rels = {}
    /\ tx = [p \in Procs |-> IdleTx]
    /\ calls = <<>>
    /\ connected \in BOOLEAN
    /\ found = NotCalled

InitApi ==
    /\ read = NotRead
    /\ processed = {}
    /\ tasks = [p \in Procs |-> IdleTask]
    /\ responses = <<>>

Init == InitEngine /\ InitGraph /\ InitApi

Next ==
    \E p \in Procs :
        \/ \E trace \in GraphTraces : SaveNotConnected(p, trace)
        \/ \E trace \in GraphTraces : BeginTransaction(p, trace)
        \/ RunStatement(p)
        \/ ConstraintViolation(p)
        \/ StatementFails(p)
        \/ Commit(p)

Spec == Init /\ [][Next]_vars

-----------------------------------------------------------------------------
(* Trace construction                                                      *)

\* extracted decision_timestamp values: absent, garbled, before the first
\* version, inside 3.1, between the two versions, the first instant of
\* 3.2, and two texts with a UTC offset
EngineTimestamps ==
    {TsAbsent, TsGarbled,
     TsIso(Naive(V31From - 1)), TsIso(Naive(DateTime(200, 0))),
     TsIso(Naive(V31Until + 1)), TsIso(Naive(V32From)),
     TsIso(Aware(DateTime(100, 0))), TsIso(Aware(DateTime(200, 0)))}
EngineRequestTimestamps == {TsAbsent, TsIso(Naive(DateTime(199, 0)))}
\* datetime.utcnow() is naive
EngineNow == {Naive(DateTime(400, 0))}
EngineCustomers == {"MedTech Corp", "Nobody Ltd"}
EngineDiscounts ==
    {NoneStr, Str(<<"nan">>), Str(<<"inf">>),
     Str(<<"8", "%">>), Str(<<"1", "0">>),
     Str(<<"1", "5", "%">>), Str(<<" ", "1", "8", " ", "%">>),
     Str(<<"2", "0", "%">>), Str(<<"2", "1", "%">>), Str(<<"2", "5", "%">>),
     Str(<<"2", "7", "%">>), Str(<<"1", " ", "8">>)}

Input(source, customer_name, ts, rts, now, final_discount) ==
    [source |-> source, customer_name |-> customer_name, ts |-> ts, rts |-> rts,
     now |-> now, final_discount |-> final_discount]

\* every combination of timestamps and discount for a pasted thread of a
\* known customer, and every source and customer for one such combination
EngineInputs ==
    {Input("email_thread", "MedTech Corp", ts, rts, now, final_discount) :
        ts \in EngineTimestamps, rts \in EngineRequestTimestamps,
        now \in EngineNow, final_discount \in EngineDiscounts}
    \cup
    {Input(source, customer_name, TsIso(Naive(DateTime(200, 0))), TsAbsent,
           now, Str(<<"2", "7", "%">>)) :
        source \in Sources, customer_name \in EngineCustomers,
        now \in EngineNow}

NextEngine ==
    \/ \E source \in Sources, fetched \in BOOLEAN :
          ConstructRaisesValueError(source, fetched)
    \/ \E in \in EngineInputs :
          ConstructRaisesTypeError(in.source, in.ts, in.rts, in.now,
                                   in.final_discount)
    \/ \E in \in EngineInputs :
          ConstructDecisionTrace(in.source, in.customer_name, in.ts, in.rts,
                                 in.now, in.final_discount)

SpecEngine == Init /\ [][NextEngine]_vars

-----------------------------------------------------------------------------
(* One ingestion step by step: construct_decision_trace, then the save of  *)
(* ingest_decision                                                         *)

\* exception classification placed before policy resolution
StepsClassifyFirst ==
    <<"_detect_policy_exceptions", "get_policy_at_time", "find_precedents",
      "DecisionTrace", "save_decision_trace">>

\* the calls of Steps 5, 6, 7.5 and 8 of construct_decision_trace and the
\* save of ingest_decision, in program order
Steps ==
    <<"get_policy_at_time", "_detect_policy_exceptions", "find_precedents",
      "DecisionTrace", "save_decision_trace">>

\* the running ingestion has reached the named call
NextStepIs(name) ==
    /\ last.kind = "steps"
    /\ Len(last.applied) < Len(Steps)
    /\ Steps[Len(last.applied) + 1] = name

StepsInputs ==
    {[customer_name |-> "MedTech Corp", extracted_ts |-> ts,
      final_discount |-> final_discount] :
        ts \in {TsAbsent, TsIso(Naive(DateTime(200, 0))),
                TsIso(Aware(DateTime(200, 0)))},
        final_discount \in {Str(<<"8", "%">>), Str(<<"2", "7", "%">>)}}

\* Steps 1 to 4: the email text, the extraction, the timestamps, the
\* evidence; the locals of the call are held in last
BeginIngestion(input) ==
    /\ last.kind \in {"init", "raise", "done"}
    /\ Cardinality(DOMAIN decisions) < MaxTraces
    /\ last' = [NoCall EXCEPT !.kind = "steps", !.source = "email_thread",
                              !.customer_name = input.customer_name,
                              !.decision_timestamp = input.extracted_ts,
                              !.now = IngestNow,
                              !.final_discount = input.final_discount]
    /\ UNCHANGED <<apiVars, decisions, nodes, rels, tx, calls, connected, found>>

\* Step 5: policy_data = policy_store.get_policy_at_time(decision_timestamp)
StepGetPolicyAtTime ==
    /\ NextStepIs("get_policy_at_time")
    /\ LET policy_data ==
               get_policy_at_time(
                   decision_timestamp_of(last.decision_timestamp, last.now))
       IN last' = IF policy_data = RaisedTypeError
                  THEN [last EXCEPT !.kind = "raise", !.error = "TypeError"]
                  ELSE [last EXCEPT !.policy_data = policy_data,
                                    !.applied = Append(@, "get_policy_at_time")]
    /\ UNCHANGED <<apiVars, decisions, nodes, rels, tx, calls, connected, found>>

\* Step 7: exceptions = self._detect_policy_exceptions(final_discount, policy_data)
StepDetectPolicyExceptions ==
    /\ NextStepIs("_detect_policy_exceptions")
    /\ last' = [last EXCEPT
                  !.exceptions = detect_policy_exceptions(last.final_discount,
                                                          last.policy_data),
                  !.applied = Append(@, "_detect_policy_exceptions")]
    /\ UNCHANGED <<apiVars, decisions, nodes, rels, tx, calls, connected, found>>

\* Step 7.5: precedents = await find_precedents(...)
StepFindPrecedents ==
    /\ NextStepIs("find_precedents")
    /\ \E o \in precedent_lookup(last.customer_name, last.now) :
          last' = IF o.raised
                  THEN [last EXCEPT !.kind = "raise", !.error = "Exception"]
                  ELSE [last EXCEPT !.precedents = o.result, !.lookup = o.how,
                                    !.applied = Append(@, "find_precedents")]
    /\ UNCHANGED <<apiVars, decisions, nodes, rels, tx, calls, connected, found>>

\* Step 8: decision_trace = DecisionTrace(...), stored under its id and
\* returned to ingest_decision
StepDecisionTrace ==
    /\ NextStepIs("DecisionTrace")
    /\ \E decision_id \in IngestFreshIds :
          LET decision_trace ==
                 assemble_trace(last.source, last.customer_name,
                                last.decision_timestamp, TsAbsent, last.now,
                                last.final_discount, decision_id,
                                last.policy_data, last.exceptions,
                                last.precedents)
          IN /\ decisions' = stored_after(decision_id, decision_trace)
             /\ last' = [last EXCEPT !.trace = decision_trace,
                                     !.applied = Append(@, "DecisionTrace")]
    /\ UNCHANGED <<apiVars, nodes, rels, tx, calls, connected, found>>

\* saved = await save_decision_trace(decision_trace) in ingest_decision
StepSaveDecisionTrace ==
    /\ NextStepIs("save_decision_trace")
    /\ \E o \in SaveOutcomes(last.trace) :
          /\ nodes' = o.nodes
          /\ rels' = o.rels
          /\ calls' = Append(calls, [Call("p1", last.trace, o.result)
                                        EXCEPT !.wrote = o.wrote])
    /\ last' = [last EXCEPT !.kind = "done",
                            !.applied = Append(@, "save_decision_trace")]
    /\ UNCHANGED <<apiVars, decisions, tx, connected, found>>

NextSteps ==
    \/ \E input \in StepsInputs : BeginIngestion(input)
    \/ StepGetPolicyAtTime
    \/ StepDetectPolicyExceptions
    \/ StepFindPrecedents
    \/ StepDecisionTrace
    \/ StepSaveDecisionTrace

SpecSteps == Init /\ [][NextSteps]_vars

-----------------------------------------------------------------------------
(* Policy resolution                                                       *)

\* the instants within QueryWindow ticks of a version boundary
QueryWindow == 20
PolicyBoundaries == {V31From, V31Until, V32From}
PolicyQueryTimes ==
    {Naive(b + d) : b \in PolicyBoundaries, d \in (0 - QueryWindow)..QueryWindow}
    \cup {Aware(b) : b \in PolicyBoundaries}

NextPolicy == \E timestamp \in PolicyQueryTimes : GetPolicyAtTime(timestamp)

SpecPolicy == Init /\ [][NextPolicy]_vars

-----------------------------------------------------------------------------
(* Required authority and exception classification of one value            *)

\* discount texts around every limit of both versions, with "nan" and "inf"
AuthorityDiscounts ==
    {Str(<<"0">>), Str(<<"1", "0", "%">>), Str(<<"1", "1", "%">>),
     Str(<<"1", "5", "%">>), Str(<<"1", "6">>), Str(<<"2", "0", "%">>),
     Str(<<"2", "1", "%">>), Str(<<"2", "5", "%">>), Str(<<"2", "6", "%">>),
     Str(<<"3", "0", "%">>), Str(<<"3", "1", "%">>), Str(<<"3", "5", "%">>),
     Str(<<"3", "6", "%">>), Str(<<"9", "0", "%">>),
     Str(<<"nan">>), Str(<<"inf">>)}

\* instants before the first version, at and between the boundaries, in
\* the second version, and one with a UTC offset
AuthorityTimes ==
    {Naive(DateTime(100, 0)), Naive(V31From), Naive(DateTime(200, 0)),
     Naive(V31Until), Naive(V31Until + 1), Naive(V32From),
     Naive(DateTime(400, 0)), Aware(DateTime(200, 0))}

InitAuthority ==
    /\ InitGraph /\ InitApi
    /\ decisions = <<>>
    /\ \E final_discount \in AuthorityDiscounts, timestamp \in AuthorityTimes :
          last = [NoCall EXCEPT !.kind = "authority",
                                !.final_discount = final_discount,
                                !.now = timestamp]

NextAuthority == GetRequiredApprovalLevel \/ DetectPolicyExceptions

SpecAuthority == InitAuthority /\ [][NextAuthority]_vars

-----------------------------------------------------------------------------
(* Precedent lookup over persisted decisions                               *)

PrecedentTrace(decision_id, day, arr, industry) ==
    DecisionTrace(decision_id, At(day),
        Request("Acme", None, None, NoDateTime),
        Outcome("approved", Str(<<"1", "5", "%">>), None, None, At(day)),
        <<Evidence("salesforce", "arr", IntValue(arr), At(day)),
          Evidence("salesforce", "industry", StrValue(industry), At(day))>>,
        NoPolicyInfo, <<>>, <<>>, "manual")

\* decisions whose ARR is inside, outside and on either end of the window
\* of a query for 450000
PrecedentTraces ==
    {PrecedentTrace("dec_p", 200, 500000, "healthcare"),
     PrecedentTrace("dec_q", 201, 200000, "healthcare"),
     PrecedentTrace("dec_r", 202, 360000, "healthcare"),
     PrecedentTrace("dec_s", 202, 540000, "finance"),
     [PrecedentTrace("dec_t", 203, 450000, "healthcare")
         EXCEPT !.decision_type = "refund_request"]}

QueryIndustries == {NullValue, StrValue(""), StrValue("healthcare")}
QueryTypes == {"discount_approval", "refund_request"}
QueryArrs == {NullValue, IntValue(450000)}
\* the default of the limit parameter, and a limit of one
DefaultLimit == 5
QueryLimits == {1, DefaultLimit}

\* one process saves traces and then queries once; the behaviour ends with
\* the query, which changes nothing in the graph
NextPrecedents ==
    \/ ~found.called /\ \E trace \in PrecedentTraces : SaveNotConnected("p1", trace)
    \/ ~found.called /\ \E trace \in PrecedentTraces : BeginTransaction("p1", trace)
    \/ ~found.called /\ RunStatement("p1")
    \/ ~found.called /\ ConstraintViolation("p1")
    \/ ~found.called /\ StatementFails("p1")
    \/ ~found.called /\ Commit("p1")
    \/ ~found.called /\
          \E customer_industry \in QueryIndustries, customer_arr \in QueryArrs,
             decision_type \in QueryTypes, limit \in QueryLimits :
             FindPrecedents(customer_industry, customer_arr, decision_type, limit)

SpecPrecedents == Init /\ [][NextPrecedents]_vars

-----------------------------------------------------------------------------
(* Reading a persisted decision back                                       *)

\* evidence of every scalar type the Evidence model allows, distinct fields
TraceE ==
    DecisionTrace("dec_e", At(220),
        Request("Acme", None, None, NoDateTime),
        Outcome("approved", Str(<<"8", "%">>), None, None, At(220)),
        <<Evidence("salesforce", "tier", StrValue("enterprise"), At(220)),
          Evidence("zendesk", "sev1_tickets", IntValue(3), At(221)),
          Evidence("zendesk", "satisfaction_score", FloatValue(32), At(221)),
          Evidence("stripe", "auto_renew", BoolValue(TRUE), At(222)),
          Evidence("stripe", "ltv", NullValue, At(222))>>,
        NoPolicyInfo, <<>>, <<>>, "manual")

ReadBackTraces == {TraceA, TraceD, TraceE}
ReadBackIds == {"dec_a", "dec_e", "dec_x"}

\* one process saves traces and then reads one decision; the behaviour ends
\* with the read, which changes nothing in the graph
NextReadBack ==
    \/ ~read.called /\ \E trace \in ReadBackTraces : SaveNotConnected("p1", trace)
    \/ ~read.called /\ \E trace \in ReadBackTraces : BeginTransaction("p1", trace)
    \/ ~read.called /\ RunStatement("p1")
    \/ ~read.called /\ ConstraintViolation("p1")
    \/ ~read.called /\ StatementFails("p1")
    \/ ~read.called /\ Commit("p1")
    \/ ~read.called /\ \E decision_id \in ReadBackIds : GetDecisionById(decision_id)

SpecReadBack == Init /\ [][NextReadBack]_vars

-----------------------------------------------------------------------------
(* Ingestion through the entry points                                      *)

\* what the Gmail search returns, and the message the endpoint is asked for
SearchResults == {<<>>, <<"m1", "m2">>}
RequestedMessages == {"m1"}

\* the ingestion entry points run against a connected store; a failing
\* save is the False outcome of the save
InitIngest == Init /\ connected

NextIngest ==
    \E p \in Procs :
        \/ \E input \in IngestInputs : DecisionConstruct(p, input)
        \/ \E input \in IngestInputs : DecisionConstructRaises(p, input)
        \/ DecisionSaved(p)
        \/ \E m \in RequestedMessages, auto_save \in BOOLEAN :
              EmailStart(p, m, auto_save)
        \/ BatchStart(p)
        \/ \E messages \in SearchResults : BatchSearched(p, messages)
        \/ EmailNotFetched(p, "Message not found")
        \/ \E input \in IngestInputs : EmailConstruct(p, input)
        \/ \E input \in IngestInputs : EmailConstructRaises(p, input)
        \/ EmailSaved(p)
        \/ GetDecision(p, DecisionIds[1])

SpecIngest == InitIngest /\ [][NextIngest]_vars

-----------------------------------------------------------------------------
(* Properties of the persistence layer                                     *)

NodesBy(c) == {n \in nodes : n.by = c}
RelsBy(c)  == {r \in rels : r.by = c}
SharedLabels == {"Person", "Policy", "Customer"}
AllIdle == \A p \in Procs : tx[p].call = 0

\* the effect of statement k of call c is in the committed graph
StatementCommitted(c, k) ==
    LET trace == calls[c].trace
        stmt  == Plan(trace)[k]
        hits  == Match(nodes, StmtLabel(stmt.op), StmtKey(trace, stmt))
    IN
    IF IsCreate(stmt.op) THEN \E n \in hits : n.by = c
    ELSE IF IsMerge(stmt.op) THEN hits # {}
    ELSE IF stmt.op = "RelSimilarTo"
    THEN Cardinality({r \in RelsBy(c) : r.stmt = k}) <= 1
    ELSE Cardinality({r \in RelsBy(c) :
                        r.stmt = k /\ r.type = RelSpec(trace, stmt).type}) = 1

CallAllOrNothing(c) ==
    IF calls[c].result = "True"
    THEN \A k \in 1..Len(Plan(calls[c].trace)) : StatementCommitted(c, k)
    ELSE NodesBy(c) = {} /\ RelsBy(c) = {}

\* a step that ends a call with False, or is taken while it runs, leaves
\* the committed graph alone; the graph changes only when a call returns True
GraphChangesOnlyOnSuccess ==
    /\ (\A c \in DOMAIN calls' :
           calls'[c].result = "False" /\ (c \notin DOMAIN calls
                                          \/ calls[c].result = "running")
           => nodes' = nodes /\ rels' = rels)
    /\ (nodes' # nodes \/ rels' # rels
           => \E c \in DOMAIN calls : /\ calls[c].result = "running"
                                      /\ calls'[c].result = "True")

\* C1: save_decision_trace is all-or-nothing.  A call that returned True has
\* the effect of every one of its statements in the committed graph; a call
\* that is still running or returned False has no node and no relationship
\* of its own in the committed graph, and the step on which it fails leaves
\* the committed graph exactly as it was.
C1_AllOrNothing ==
    /\ [](\A c \in DOMAIN calls : CallAllOrNothing(c))
    /\ [][GraphChangesOnlyOnSuccess]_vars

\* one call committed and another failed after its node writes and some of
\* its relationship writes had run
C1_Witness ==
    /\ \E c \in DOMAIN calls : calls[c].result = "True"
    /\ \E c \in DOMAIN calls :
          /\ calls[c].result = "False"
          /\ calls[c].wrote

KeysOf(label) == {n.key : n \in {m \in nodes : m.label = label}}

AtMostOnePerKey ==
    \A label \in SharedLabels : \A key \in KeysOf(label) :
        Cardinality(Match(nodes, label, key)) = 1

\* every Person, Policy and Customer key a successful call merged has
\* exactly one node
MergedKeysHaveOneNode ==
    \A c \in DOMAIN calls : calls[c].result = "True" =>
        \A k \in 1..Len(Plan(calls[c].trace)) :
            LET stmt == Plan(calls[c].trace)[k] IN
            IsMerge(stmt.op) =>
                Cardinality(Match(nodes, StmtLabel(stmt.op),
                                  StmtKey(calls[c].trace, stmt))) = 1

\* C2: after any sequence of save_decision_trace calls (no call in
\* progress) the graph holds at most one Person per email, one Policy per
\* version and one Customer per name, and every key merged by a successful
\* persist has exactly one node, also when several persisted traces share it.
C2_MergeIdempotent ==
    AllIdle => AtMostOnePerKey /\ MergedKeysHaveOneNode

\* two persisted traces that share a Person, the Policy and the Customer
C2_Witness ==
    /\ AllIdle
    /\ \E c, d \in DOMAIN calls :
          /\ c # d
          /\ calls[c].result = "True" /\ calls[d].result = "True"
          /\ calls[c].trace = TraceA /\ calls[d].trace = TraceB
    /\ Cardinality(Match(nodes, "Person", <<"rep@corp.com">>)) = 1
    /\ Cardinality(Match(nodes, "Customer", <<"Acme">>)) = 1
    /\ Cardinality(Match(nodes, "Policy", <<"3.1">>)) = 1

\* C3: under every interleaving of concurrent save_decision_trace
\* transactions, in every reachable state (transactions in flight included)
\* the committed graph has no two Person, Policy or Customer nodes with the
\* same identity key; exclusion comes from the key locks of the store's
\* uniqueness constraints, the program takes no lock of its own.
C3_NoDuplicatesUnderConcurrency ==
    \A n, m \in nodes :
        (n.label \in SharedLabels /\ n.label = m.label /\ n.key = m.key)
            => n = m

\* two transactions are open, one holds the key lock of a shared entity
\* that it created and the next statement of the other merges the same key
C3_Witness ==
    \E p, q \in Procs :
        /\ p # q /\ tx[p].call # 0 /\ tx[q].call # 0
        /\ tx[q].pc <= Len(Plan(calls[tx[q].call].trace))
        /\ LET trace == calls[tx[q].call].trace
               stmt  == Plan(trace)[tx[q].pc] IN
           /\ IsMerge(stmt.op)
           /\ LockFor(trace, stmt) \cap tx[p].locks # {}
           /\ \E n \in tx[p].wnodes :
                 n.label = StmtLabel(stmt.op) /\ n.key = StmtKey(trace, stmt)

-----------------------------------------------------------------------------
(* Properties of policy resolution and trace construction                  *)

Covering(t) == {i \in DOMAIN POLICY_VERSIONS : InEffect(POLICY_VERSIONS[i], t)}

\* C4: for every (naive) timestamp t at most one configured version's
\* interval contains t, and get_policy_at_time(t) returns exactly one
\* version for every t at or after the earliest effective_from: consecutive
\* versions neither overlap nor leave a gap.
C4_ExactlyOneVersionInCoverage ==
    (last.kind = "policy" /\ ~last.now.aware) =>
        /\ Cardinality(Covering(last.now.t)) <= 1
        /\ last.now.t >= POLICY_VERSIONS[1].effective_from =>
              /\ last.policy_data \in DOMAIN POLICY_VERSIONS
              /\ Cardinality(Covering(last.now.t)) = 1

ResolvedTimestamp == decision_timestamp_of(last.decision_timestamp, last.now)

\* C5: when the decision timestamp precedes the earliest configured policy
\* version, policy resolution raises no error and construct_decision_trace
\* returns a trace whose policy is absent and whose exceptions are empty.
C5_BeforeFirstVersionGivesTrace ==
    ((last.kind = "trace" \/ last.error = "TypeError")
        /\ ResolvedTimestamp.t < POLICY_VERSIONS[1].effective_from) =>
        /\ last.kind = "trace"
        /\ ~last.trace.policy.present
        /\ last.trace.exceptions = <<>>

\* the latest call returned a trace under a resolved policy and the final
\* discount was parsed to a float
ParsedUnderPolicy ==
    /\ last.kind = "trace"
    /\ last.trace.policy.present
    /\ last.final_discount.present /\ last.final_discount.chars # <<>>
    /\ ParseDiscount(last.final_discount) # BadFloat

ParsedValue == ParseDiscount(last.final_discount)
Limits == last.trace.policy.rules

IsException(e, type, limit) ==
    /\ e.exception_type = type
    /\ e.policy_limit = limit
    /\ e.deviation = Minus(ParsedValue, limit)

\* C7: for every final value v > standard_limit the single exception is
\* chosen by bucket: (standard, manager] exceeds_standard_limit with
\* deviation v - standard, (manager, vp] requires_vp_approval with deviation
\* v - manager, above vp exceeds_all_standard_limits with deviation v - vp;
\* a value equal to manager or vp belongs to the lower bucket.  With limits
\* 10/15/20, 18 gives requires_vp_approval with deviation 3 and 27 gives
\* exceeds_all_standard_limits with deviation 7.
C7_ExceptionByBucket ==
    (ParsedUnderPolicy /\ Gt(ParsedValue, Limits.standard_limit)) =>
        /\ Len(last.trace.exceptions) = 1
        /\ LET e == last.trace.exceptions[1] IN
           /\ Le(ParsedValue, Limits.manager_limit) =>
                 IsException(e, "exceeds_standard_limit", Limits.standard_limit)
           /\ (Gt(ParsedValue, Limits.manager_limit)
               /\ Le(ParsedValue, Limits.vp_limit)) =>
                 IsException(e, "requires_vp_approval", Limits.manager_limit)
           /\ Gt(ParsedValue, Limits.vp_limit) =>
                 IsException(e, "exceeds_all_standard_limits", Limits.vp_limit)
           /\ (Limits.vp_limit = 20 /\ ParsedValue = Num(18)) =>
                 e.exception_type = "requires_vp_approval" /\ e.deviation = Num(3)
           /\ (Limits.vp_limit = 20 /\ ParsedValue = Num(27)) =>
                 /\ e.exception_type = "exceeds_all_standard_limits"
                 /\ e.deviation = Num(7)

\* a value equal to the VP limit was classified into the (manager, vp] bucket
C7_Witness ==
    /\ ParsedUnderPolicy
    /\ ParsedValue = Num(Limits.vp_limit)
    /\ Len(last.trace.exceptions) = 1
    /\ last.trace.exceptions[1].exception_type = "requires_vp_approval"

ProducedTraces ==
    {decisions[d] : d \in DOMAIN decisions}
    \cup (IF last.kind = "trace" THEN {last.trace} ELSE {})

\* C8: in every trace produced by construct_decision_trace,
\* policy.exception_made is true if and only if the exceptions list is
\* non-empty, and a trace with no resolved policy has no exceptions.
C8_ExceptionMadeIffExceptions ==
    \A trace \in ProducedTraces :
        /\ trace.policy.present =>
              (trace.policy.exception_made <=> trace.exceptions # <<>>)
        /\ ~trace.policy.present => trace.exceptions = <<>>

\* a stored trace under a resolved policy whose exceptions list is non-empty
\* and whose policy.exception_made was set
C8_Witness ==
    \E trace \in ProducedTraces :
        /\ trace.policy.present
        /\ trace.exceptions # <<>>
        /\ trace.policy.exception_made

\* C9: the trace's timestamp is the extracted decision time when present,
\* otherwise the extracted request time when present, otherwise the
\* current instant.
C9_TimestampFallsBackToRequestTime ==
    last.kind = "trace" =>
        last.trace.timestamp =
            OrTime(parse_timestamp(last.decision_timestamp),
                   OrTime(parse_timestamp(last.request_timestamp), last.now))

-----------------------------------------------------------------------------
(* Properties of the precedent lookup                                      *)

InClosedWindow(arr, scale) == 5 * arr >= 4 * scale /\ 5 * arr <= 6 * scale

ReturnedIds == {found.result[i].decision_id : i \in DOMAIN found.result}

\* C10: when a query scale s is given, find_precedents returns only
\* decisions whose scale lies in [0.8*s, 1.2*s], and a decision whose scale
\* is exactly 0.8*s or 1.2*s is eligible: it is returned whenever the rows
\* were not cut by the limit.
C10_ClosedScaleWindow ==
    (found.called /\ Truthy(found.customer_arr)) =>
        /\ \A d \in found.stored :
              d.key[1] \in ReturnedIds =>
                 InClosedWindow(d.props.customer_arr.n, found.customer_arr.n)
        /\ (found.result # <<>> /\ Len(found.result) < found.limit) =>
              \A d \in found.stored :
                 (/\ d.props.customer_arr.ty = "int"
                  /\ InClosedWindow(d.props.customer_arr.n, found.customer_arr.n)
                  /\ Truthy(found.customer_industry) =>
                        d.props.customer_industry = found.customer_industry)
                    => d.key[1] \in ReturnedIds

\* the stored decisions that pass the type filter and, when an industry is
\* given, the industry filter
TypeIndustryMatches ==
    {d \in found.stored :
        /\ d.props.type = found.decision_type
        /\ Truthy(found.customer_industry) =>
              d.props.customer_industry = found.customer_industry}

-----------------------------------------------------------------------------
(* Properties of reading a decision back                                   *)

\* the traces whose save returned True under the id that was read
SavedTraces(decision_id) ==
    {calls[c].trace : c \in {k \in DOMAIN calls :
        /\ calls[k].result = "True"
        /\ calls[k].trace.decision_id = decision_id}}

\* (source, field, value, captured_at) with captured_at as an instant
EvidenceTuple(e) == <<e.source, e.field, e.value, e.captured_at.t>>

\* C12: after a trace with distinct evidence fields is persisted,
\* get_decision_by_id with its id returns evidence whose (source, field,
\* value, captured_at) tuples equal, as a set, those of the trace, for
\* string, number, boolean and null values.
C12_EvidenceRoundTrip ==
    (read.called /\ read.kind = "dict") =>
        \A trace \in SavedTraces(read.decision_id) :
            {EvidenceTuple(e) : e \in read.evidence}
                = {EvidenceTuple(trace.evidence[i]) : i \in DOMAIN trace.evidence}

-----------------------------------------------------------------------------
(* Properties of the ingestion entry points                                *)

\* the values ingest_decision and ingest_email returned with a trace
TraceResponses ==
    {i \in DOMAIN responses :
        /\ responses[i].entry \in {"ingest_decision", "ingest_email"}
        /\ responses[i].trace # NoTrace}

\* C13: when save_decision_trace returned False after a trace was
\* constructed, ingest_decision and ingest_email still return the trace and
\* their result tells the caller that persistence did not happen: the
\* reported saved flag is true only if the save succeeded.
C13_SavedFlagTellsPersistence ==
    \A i \in TraceResponses :
        responses[i].saved = "False" => responses[i].flag = "False"

-----------------------------------------------------------------------------
(* Properties of the node write rules                                      *)

\* the calls that returned True and whose trace names the key of node n
Persists(n) ==
    {c \in DOMAIN calls :
        /\ calls[c].result = "True"
        /\ \E k \in DOMAIN Plan(calls[c].trace) :
              /\ StmtLabel(Plan(calls[c].trace)[k].op) = n.label
              /\ StmtKey(calls[c].trace, Plan(calls[c].trace)[k]) = n.key}

\* what the MERGE statements of call c for the key of node n would write
WrittenBy(c, n) ==
    {NewNodeProps(calls[c].trace, Plan(calls[c].trace)[k]) :
        k \in {j \in DOMAIN Plan(calls[c].trace) :
            /\ StmtLabel(Plan(calls[c].trace)[j].op) = n.label
            /\ StmtKey(calls[c].trace, Plan(calls[c].trace)[j]) = n.key}}

\* the first statement of call c for the key of node n
FirstStmtFor(c, n) ==
    Plan(calls[c].trace)[CHOOSE k \in DOMAIN Plan(calls[c].trace) :
        /\ StmtLabel(Plan(calls[c].trace)[k].op) = n.label
        /\ StmtKey(calls[c].trace, Plan(calls[c].trace)[k]) = n.key
        /\ \A j \in 1..(k - 1) :
              ~ /\ StmtLabel(Plan(calls[c].trace)[j].op) = n.label
                /\ StmtKey(calls[c].trace, Plan(calls[c].trace)[j]) = n.key]

\* C14: a Person node's role and name and a Policy node's effective dates
\* and limits are those written by the first statement of the persist that
\* created the node, whatever later persists with the same email or version
\* carry, also when one email is requestor and approver of one trace.
C14_PersonPolicySetOnCreateOnly ==
    \A n \in nodes : n.label \in {"Person", "Policy"} =>
        /\ calls[n.by].result = "True"
        /\ n.props = NewNodeProps(calls[n.by].trace, FirstStmtFor(n.by, n))
        /\ \A m \in nodes : (m.label = n.label /\ m.key = n.key) => m = n

\* a Person and a Policy node were created by one persist and a later
\* persist carried another role, name and limits for the same keys
C14_Witness ==
    \E n \in nodes, m \in nodes, c \in DOMAIN calls :
        /\ n.label = "Person" /\ m.label = "Policy"
        /\ c \in Persists(n) \cap Persists(m)
        /\ c # n.by /\ c # m.by
        /\ n.props \notin WrittenBy(c, n)
        /\ m.props \notin WrittenBy(c, m)

\* the processes whose call for the customer of node n returns True in
\* this step
CommittingFor(n) ==
    {p \in Procs :
        /\ tx[p].call # 0
        /\ tx'[p].call = 0
        /\ calls'[tx[p].call].result = "True"
        /\ <<calls[tx[p].call].trace.request.customer>> = n.key}

\* C15: on a repeat persist for an existing Customer name the node's
\* last_decision becomes the new trace's timestamp, its current_arr becomes
\* the new trace's ARR evidence value when that is present and stays as it
\* was when it is absent, and industry, tier and first_seen do not change;
\* no other step changes the node.
C15_RepeatPersistUpdatesCustomer ==
    [][\A n \in nodes : n.label = "Customer" =>
          \E m \in nodes' :
             /\ NodeId(m) = NodeId(n)
             /\ IF CommittingFor(n) = {} THEN m = n
                ELSE \A p \in CommittingFor(n) :
                   LET trace == calls[tx[p].call].trace
                       arr   == EvidenceValue(trace.evidence, "arr")
                   IN
                   /\ m.props.last_decision = CypherDateTime(trace.timestamp)
                   /\ m.props.current_arr
                         = IF arr # NullValue THEN arr ELSE n.props.current_arr
                   /\ m.props.industry = n.props.industry
                   /\ m.props.tier = n.props.tier]_vars

\* the customer was created by a persist with an ARR and a later persist
\* for the same name, without ARR evidence, has committed
C15_Witness ==
    \E n \in nodes, c \in DOMAIN calls :
        /\ n.label = "Customer" /\ n.key = <<"Acme">>
        /\ calls[n.by].trace = TraceA
        /\ c # n.by
        /\ calls[c].trace = TraceC /\ calls[c].result = "True"
        /\ n.props.current_arr = IntValue(500000)
        /\ n.props.industry = StrValue("healthcare")
        /\ n.props.last_decision = CypherDateTime(TraceC.timestamp)

\* the call that returns True in this step, if any
CommittingCalls ==
    {tx[p].call : p \in {q \in Procs :
        /\ tx[q].call # 0
        /\ tx'[q].call = 0
        /\ calls'[tx[q].call].result = "True"}}

Added(label) == {n \in nodes' \ nodes : n.label = label}

\* C16: every successful save_decision_trace adds exactly one new Decision
\* node and one new Evidence node per evidence item, keyed by decision id
\* and field; no step merges into or alters a stored Decision or Evidence
\* node, so a persist whose decision id already exists leaves the stored
\* Decision and its evidence as they were, the only nodes with their keys.
C16_DecisionEvidenceAlwaysNew ==
    [][/\ \A n \in nodes : n.label \in {"Decision", "Evidence"} => n \in nodes'
       /\ \A n, m \in nodes' :
             (n.label \in {"Decision", "Evidence"}
                 /\ m.label = n.label /\ m.key = n.key) => m = n
       /\ CommittingCalls = {} => Added("Decision") \cup Added("Evidence") = {}
       /\ \A c \in CommittingCalls :
             LET trace == calls[c].trace IN
             /\ {n.key : n \in Added("Decision")} = {<<trace.decision_id>>}
             /\ Cardinality(Added("Decision")) = 1
             /\ \A n \in Added("Decision") : n.props = DecisionProps(trace)
             /\ Cardinality(Added("Evidence")) = Len(trace.evidence)
             /\ {n.key : n \in Added("Evidence")}
                   = {<<trace.decision_id, trace.evidence[i].field>>
                         : i \in DOMAIN trace.evidence}]_vars

\* a trace with two evidence items is stored with its Decision and both
\* Evidence nodes, and a persist of another trace with the same decision id
\* has returned False
C16_Witness ==
    \E c, d \in DOMAIN calls :
        /\ calls[c].trace = TraceA /\ calls[c].result = "True"
        /\ calls[d].trace = TraceD /\ calls[d].result = "False"
        /\ \E n \in nodes :
              /\ n.label = "Decision" /\ n.key = <<"dec_a">> /\ n.by = c
              /\ n.props = DecisionProps(TraceA)
        /\ Cardinality({n \in nodes : n.label = "Evidence" /\ n.by = c}) = 2

\* the values returned with a trace
WithTrace(rs) == {i \in DOMAIN rs : rs[i].trace # NoTrace}

\* C17: once construct_decision_trace has returned a trace with id d the
\* trace stored under d never changes: no step overwrites or removes it,
\* and after later constructions, persists and ingestions get_decision(d)
\* returns a trace equal in every field to the one first returned.
C17_StoredTraceNeverChanges ==
    [][/\ \A d \in DOMAIN decisions :
             d \in DOMAIN decisions' /\ decisions'[d] = decisions[d]
       /\ \A i \in WithTrace(responses') :
             /\ responses'[i].decision_id = responses'[i].trace.decision_id
             /\ responses'[i].trace = decisions'[responses'[i].decision_id]
             /\ \A j \in WithTrace(responses') :
                   responses'[j].decision_id = responses'[i].decision_id
                      => responses'[j].trace = responses'[i].trace]_vars

\* an ingestion returned a trace, a later construction stored another one,
\* a persist ran, and get_decision then returned the first trace
C17_Witness ==
    \E i, j \in DOMAIN responses :
        /\ i < j
        /\ responses[i].entry \in {"ingest_decision", "ingest_email"}
        /\ responses[i].trace # NoTrace
        /\ responses[j].entry = "get_decision"
        /\ responses[j].decision_id = responses[i].decision_id
        /\ responses[j].trace = responses[i].trace
        /\ Cardinality(DOMAIN decisions) = 2
        /\ \E c \in DOMAIN calls : calls[c].result = "True"

\* the traces constructed so far for message m by ingest_email calls,
\* returned or still running
ConstructedFor(m) ==
    {responses[i].decision_id : i \in {j \in WithTrace(responses) :
        /\ responses[j].entry = "ingest_email"
        /\ responses[j].message_id = m}}
    \cup {tasks[p].decision_id : p \in {q \in Procs :
        /\ tasks[q].kind \in {"email", "batch"}
        /\ tasks[q].message_id = m
        /\ tasks[q].decision_id # ""}}

-----------------------------------------------------------------------------
(* Properties of loading the policy versions                               *)

\* the versions are in chronological order, each but the last is closed,
\* and each starts at the instant after the one before it ends: no overlap
\* and no gap at the resolution of the clock
ValidVersionSet(versions) ==
    /\ \A i \in DOMAIN versions :
          versions[i].effective_until # NoTime
             => versions[i].effective_from <= versions[i].effective_until
    /\ \A i \in 1..(Len(versions) - 1) :
          /\ versions[i].effective_until # NoTime
          /\ versions[i + 1].effective_from = versions[i].effective_until + 1

\* C19: loading the policy version set validates it eagerly: a set whose
\* intervals overlap, are out of chronological order or leave a gap is
\* rejected when the PolicyStore is constructed, so get_policy_at_time is
\* never run against an invalid version set.
C19_InvalidVersionSetRejectedAtLoad ==
    (last.kind = "policy" /\ policy_store.loaded)
        => ValidVersionSet(policy_store.policies)

-----------------------------------------------------------------------------
(* Properties of an unparsable final value                                 *)

\* a final value that parses and is within the standard limit of every
\* configured version
WithinLimits == Str(<<"8", "%">>)

\* what the caller of _detect_policy_exceptions gets for a final value
VisibleOutcome(final_discount, policy_data) ==
    [raised |-> FALSE,
     exceptions |-> detect_policy_exceptions(final_discount, policy_data)]

\* C20: when the final-value string cannot be parsed as a number,
\* _detect_policy_exceptions raises no error and yields no exception, and
\* the outcome visible to the caller differs from the outcome for a parsed
\* value within the standard limit.
C20_ParseFailureDistinguishable ==
    (last.kind = "trace"
        /\ parse_warning_logged(last.final_discount, last.policy_data)) =>
        /\ last.trace.exceptions = <<>>
        /\ VisibleOutcome(last.final_discount, last.policy_data)
              # VisibleOutcome(WithinLimits, last.policy_data)

-----------------------------------------------------------------------------
(* Properties of the precedent lookup inside trace construction            *)

\* C21: find_precedents never raises: when the graph store is not
\* connected, when the query fails, or when no historical decision matches,
\* it returns an empty list, and construct_decision_trace then produces a
\* trace with an empty precedents collection.
C21_LookupNeverRaises ==
    (last.lookup # "none") =>
        /\ last.kind = "trace"
        /\ last.trace.decision_id \in DOMAIN decisions
        /\ (last.lookup \in {"not_connected", "query_failed"}
              \/ {n \in nodes : n.label = "Decision"} = {})
              => last.trace.precedents = <<>>

\* the query of the lookup failed against a connected store and the trace
\* was produced
C21_Witness ==
    /\ connected
    /\ last.lookup = "query_failed"
    /\ last.kind = "trace"
    /\ last.trace.precedents = <<>>

-----------------------------------------------------------------------------
(* Properties of the input source check                                    *)

\* C22: a request that provides none of email_thread, gmail_thread_id and
\* gmail_message_id fails with a validation error before any work is done:
\* no policy is resolved, no precedent is looked up, nothing is written to
\* the graph and no trace is added to the engine's store.
C22_NoSourceAbortsBeforeWork ==
    [][(last' # last /\ last'.source = "none") =>
          /\ last'.kind = "raise" /\ last'.error = "ValueError"
          /\ last'.policy_data = NoPolicy
          /\ last'.lookup = "none"
          /\ last'.trace = NoTrace
          /\ decisions' = decisions
          /\ nodes' = nodes /\ rels' = rels /\ calls' = calls]_vars

\* a request without a source was handled
C22_Witness ==
    /\ last.source = "none"
    /\ last.kind = "raise"
    /\ last.error = "ValueError"
    /\ decisions = <<>>

-----------------------------------------------------------------------------
(* Properties of degraded construction                                     *)

\* C23: trace construction degrades instead of aborting: with a fallback
\* extraction or without evidence for the customer it still returns a
\* trace, and a request that names a source fails only when the requested
\* Gmail thread or message cannot be fetched.
C23_FailsOnlyOnUnreachableSource ==
    (last.kind = "raise" /\ last.source # "none") =>
        /\ last.error = "ValueError"
        /\ last.source \in {"gmail_thread_id", "gmail_message_id"}

-----------------------------------------------------------------------------
(* Required approval level                                                 *)

Tiers == <<"standard", "manager", "vp", "cfo">>
TierLimit(rules, i) ==
    CASE i = 1 -> rules.standard_limit
      [] i = 2 -> rules.manager_limit
      [] i = 3 -> rules.vp_limit
      [] i = 4 -> rules.cfo_limit

\* get_required_approval_level has answered for the value and instant held
AuthorityAnswered ==
    /\ last.kind = "authority"
    /\ Applied("get_required_approval_level")
AuthorityValue == ParseDiscount(last.final_discount)
AuthorityPolicy == get_policy_at_time(last.now)
AuthorityRules == POLICY_VERSIONS[AuthorityPolicy].rules

\* the answer is the lowest tier whose limit is >= v, when it is a tier
LowestSufficientTier ==
    \A i \in 1..4 :
        last.required_role = Tiers[i] <=>
            /\ Le(AuthorityValue, TierLimit(AuthorityRules, i))
            /\ \A j \in 1..(i - 1) :
                  ~Le(AuthorityValue, TierLimit(AuthorityRules, j))

-----------------------------------------------------------------------------
(* Resolution at the bounds of a version                                   *)

\* C25: get_policy_at_time returns the first version in list order with
\* t >= effective_from and (effective_until is None or t <= effective_until),
\* None when there is none; both bounds are inclusive, so an instant equal
\* to a version's effective_from or effective_until resolves to that version.
C25_FirstVersionInclusiveBounds ==
    (last.kind = "policy" /\ ~last.now.aware) =>
        /\ Covering(last.now.t) = {} => last.policy_data = NoPolicy
        /\ Covering(last.now.t) # {} =>
              /\ last.policy_data \in Covering(last.now.t)
              /\ \A i \in Covering(last.now.t) : last.policy_data <= i
        /\ \A i \in 1..Len(POLICY_VERSIONS) :
              last.now.t \in {POLICY_VERSIONS[i].effective_from,
                              POLICY_VERSIONS[i].effective_until}
                 => last.policy_data = i

\* the last instant of version 3.1 resolved to version 3.1
C25_Witness ==
    /\ last.kind = "policy"
    /\ last.now = Naive(V31Until)
    /\ last.policy_data = 1

-----------------------------------------------------------------------------
(* Relationships of a persisted trace                                      *)

\* the calls of save_decision_trace that returned True
Persisted == {c \in DOMAIN calls : calls[c].result = "True"}

\* the relationships of the given type that leave the Decision of trace
FromDecision(trace, type) ==
    {r \in rels : /\ r.type = type
                  /\ r.from.label = "Decision"
                  /\ r.from.key = <<trace.decision_id>>}

\* C26: a persisted trace with a policy has exactly one EVALUATED
\* relationship from its Decision, to the Policy of its version and with
\* followed = not exception_made, and exactly one OVERRODE relationship per
\* exception (none without exceptions); a persisted trace without a policy
\* has neither.
C26_EvaluatedAndOverrodePerTrace ==
    \A c \in Persisted :
        LET trace == calls[c].trace IN
        IF trace.policy.present
        THEN /\ Cardinality(FromDecision(trace, "EVALUATED")) = 1
             /\ \A r \in FromDecision(trace, "EVALUATED") :
                   /\ r.to.label = "Policy"
                   /\ r.to.key = <<trace.policy.version>>
                   /\ r.props.followed = ~trace.policy.exception_made
                   /\ \E n \in nodes : NodeId(n) = r.to
             /\ Cardinality(FromDecision(trace, "OVERRODE"))
                   = Len(trace.exceptions)
             /\ \A i \in DOMAIN trace.exceptions :
                   \E r \in FromDecision(trace, "OVERRODE") :
                      /\ r.to.label = "Policy"
                      /\ r.to.key = <<trace.policy.version>>
                      /\ r.props.exception_type
                            = trace.exceptions[i].exception_type
        ELSE /\ FromDecision(trace, "EVALUATED") = {}
             /\ FromDecision(trace, "OVERRODE") = {}

\* a trace with a policy and one exception and a trace without a policy
\* are both persisted
C26_Witness ==
    \E c, e \in Persisted :
        /\ calls[c].trace.policy.present
        /\ calls[c].trace.policy.exception_made
        /\ Len(calls[c].trace.exceptions) = 1
        /\ Cardinality(FromDecision(calls[c].trace, "OVERRODE")) = 1
        /\ ~calls[e].trace.policy.present

\* C27: the Decision of every persisted trace has exactly one BASED_ON
\* relationship per evidence item, exactly one FOR_CUSTOMER relationship and
\* exactly one SIMILAR_TO relationship per precedent of the trace, with that
\* precedent's score, also when the precedent's decision is not stored.
C27_RelationshipPerTraceItem ==
    \A c \in Persisted :
        LET trace == calls[c].trace IN
        /\ Cardinality(FromDecision(trace, "BASED_ON")) = Len(trace.evidence)
        /\ \A i \in DOMAIN trace.evidence :
              \E r \in FromDecision(trace, "BASED_ON") :
                 r.to.key = <<trace.decision_id, trace.evidence[i].field>>
        /\ Cardinality(FromDecision(trace, "FOR_CUSTOMER")) = 1
        /\ Cardinality(FromDecision(trace, "SIMILAR_TO")) = Len(trace.precedents)
        /\ \A i \in DOMAIN trace.precedents :
              \E r \in FromDecision(trace, "SIMILAR_TO") :
                 /\ r.to.key = <<trace.precedents[i].decision_id>>
                 /\ r.props.similarity_score
                       = trace.precedents[i].similarity_score

-----------------------------------------------------------------------------
(* Order of the steps of one ingestion                                     *)

\* the running ingestion makes the named call in this step
StepTaken(name) ==
    /\ last.kind = "steps"
    /\ last'.applied = Append(last.applied, name)

\* C28: within one ingestion the policy is resolved before the exceptions
\* are classified, the exceptions before the precedent lookup, and the
\* trace is assembled from these three before the graph write starts; what
\* is written is the assembled trace, and policy, exceptions and precedents
\* do not change once they are set.
C28_StepsInFixedOrder ==
    [][/\ StepTaken("_detect_policy_exceptions") => Applied("get_policy_at_time")
       /\ StepTaken("find_precedents") =>
             /\ Applied("get_policy_at_time")
             /\ Applied("_detect_policy_exceptions")
       /\ StepTaken("DecisionTrace") =>
             /\ Applied("find_precedents")
             /\ last'.trace.policy.present = (last.policy_data # NoPolicy)
             /\ last.policy_data # NoPolicy =>
                   last'.trace.policy.version
                      = POLICY_VERSIONS[last.policy_data].version
             /\ last'.trace.exceptions = last.exceptions
             /\ last'.trace.precedents = last.precedents
       /\ calls' # calls =>
             /\ Applied("get_policy_at_time")
             /\ Applied("_detect_policy_exceptions")
             /\ Applied("find_precedents")
             /\ Applied("DecisionTrace")
             /\ calls'[Len(calls')].trace = last.trace
             /\ last'.trace = last.trace
       /\ (last.kind = "steps" /\ last'.kind \in {"steps", "done"}) =>
             /\ Applied("get_policy_at_time") =>
                   last'.policy_data = last.policy_data
             /\ Applied("_detect_policy_exceptions") =>
                   last'.exceptions = last.exceptions
             /\ Applied("find_precedents") =>
                   last'.precedents = last.precedents
             /\ Applied("DecisionTrace") => last'.trace = last.trace]_vars

\* a trace with a policy, an exception and a precedent went through every
\* step and was written to the graph
C28_Witness ==
    /\ last.kind = "done"
    /\ last.trace.policy.present
    /\ last.trace.exceptions # <<>>
    /\ last.trace.precedents # <<>>
    /\ calls[Len(calls)].result = "True"
    /\ calls[Len(calls)].trace = last.trace

-----------------------------------------------------------------------------
(* Agreement of classification and required authority                      *)

\* both functions have answered for the value and instant held, under a
\* resolved policy
BothAnswered ==
    /\ last.kind = "authority"
    /\ Applied("get_required_approval_level")
    /\ Applied("_detect_policy_exceptions")
    /\ last.policy_data >= 1

\* the exception_type _detect_policy_exceptions gave, "none" for an empty list
ExceptionType ==
    IF last.exceptions = <<>> THEN "none" ELSE last.exceptions[1].exception_type

\* C29: for every value and every configured version the two functions
\* agree: no exception exactly when the required role is "standard",
\* exceeds_standard_limit exactly when it is "manager", requires_vp_approval
\* exactly when it is "vp", exceeds_all_standard_limits exactly when it is
\* "cfo" or "exception".
C29_ClassificationAgreesWithAuthority ==
    BothAnswered =>
        /\ ExceptionType = "none" <=> last.required_role = "standard"
        /\ ExceptionType = "exceeds_standard_limit"
              <=> last.required_role = "manager"
        /\ ExceptionType = "requires_vp_approval" <=> last.required_role = "vp"
        /\ ExceptionType = "exceeds_all_standard_limits"
              <=> last.required_role \in {"cfo", "exception"}

-----------------------------------------------------------------------------
(* The processed set and the batch summary                                 *)

\* the values returned in this step
NewResponses == (DOMAIN responses') \ (DOMAIN responses)

\* the successful ingest_email results for message m whose trace is in the
\* engine's store
TracedResults(m, rs, store) ==
    {i \in DOMAIN rs : /\ rs[i].entry = "ingest_email"
                       /\ rs[i].success
                       /\ rs[i].message_id = m
                       /\ rs[i].decision_id \in DOMAIN store
                       /\ store[rs[i].decision_id] = rs[i].trace}

\* every processed id has a successful result whose trace is in the store,
\* and every batch summary has successful + failed = total = number of
\* result entries
ProcessedHaveTracesAndCountsAddUp ==
    /\ \A m \in processed : TracedResults(m, responses, decisions) # {}
    /\ \A i \in DOMAIN responses : responses[i].entry = "batch_ingest" =>
          /\ responses[i].successful + responses[i].failed = responses[i].total
          /\ responses[i].total = responses[i].results

\* C30: a message id enters the processed set only in a step that returns
\* a successful ingest_email result for it whose trace is stored; a step
\* that returns success false for a message does not add that message; no
\* id leaves the set and no trace leaves the store, so every processed id
\* has a trace in the store; and every batch summary has
\* successful + failed = total = number of result entries.
C30_ProcessedOnlyWithTrace ==
    [][/\ processed \subseteq processed'
       /\ \A d \in DOMAIN decisions :
             d \in DOMAIN decisions' /\ decisions'[d] = decisions[d]
       /\ \A m \in processed' \ processed :
             TracedResults(m, responses', decisions') \cap NewResponses # {}
       /\ \A i \in NewResponses :
             (responses'[i].entry = "ingest_email" /\ ~responses'[i].success)
                => (responses'[i].message_id \in processed'
                       <=> responses'[i].message_id \in processed)
       /\ ProcessedHaveTracesAndCountsAddUp']_vars

\* a batch over two messages returned one success and one failure, and the
\* failed message is not in the processed set
C30_Witness ==
    \E i \in DOMAIN responses :
        /\ responses[i].entry = "batch_ingest"
        /\ responses[i].total = 2
        /\ responses[i].successful = 1
        /\ responses[i].failed = 1
        /\ processed # {}
        /\ \E j \in DOMAIN responses :
              /\ responses[j].entry = "ingest_email"
              /\ ~responses[j].success
              /\ responses[j].message_id \notin processed

=============================================================================
